---------------------------- MODULE Spec2Model ----------------------------
(***************************************************************************)
(* Model of the risk-metrics pipeline of RiskManagementAgent               *)
(* (src/agents/risk_management/agent.py).                                  *)
(*                                                                         *)
(* Numbers.  A return is an integer number of tenths (1 = 0.10 = +10%).    *)
(* A float of the program is a record: an exact rational [k |-> "rat",     *)
(* num, den] (den > 0), NaN or a signed infinity, so that the IEEE         *)
(* outcomes of 0/0, x/0 and of the mean of nothing stay visible.  A        *)
(* standard deviation is carried as the square root of a rational.         *)
(*                                                                         *)
(* A pandas Series is a record [index, values] of two sequences of equal   *)
(* length; the index holds strictly increasing day numbers.  Python's None *)
(* is the record None, a raised exception the record Raise(name).          *)
(***************************************************************************)
EXTENDS Integers, Sequences, FiniteSets, TLC

(***************************************************************************)
(* Bounds of the model.                                                    *)
(***************************************************************************)
MaxLen == 3

ReturnValues == {-2, -1, 0, 1, 2}
Confidences == {90, 95, 99}
PortfolioValues == {100000, 50000}

\* arguments outside the documented ranges: confidence 0, 1, -0.5 and 1.5,
\* a zero and a negative portfolio value
InvalidConfidences == {0, 100, -50, 150}
InvalidPortfolioValues == {0, -50000}

(***************************************************************************)
(* Python values.                                                          *)
(***************************************************************************)
None == [tag |-> "None"]

Raise(exc) == [tag |-> "raise", exc |-> exc]

IsRaise(x) == x.tag = "raise"

\* ikind: "int" for the integer labels a record list without a Date column
\* gives (RangeIndex), "date" for a DatetimeIndex
Series(idx, vals) ==
  [tag |-> "Series", ikind |-> "int", index |-> idx, values |-> vals]

\* a value that may also be None
Some(v) == [tag |-> "some", v |-> v]

len(s) == Len(s.values)

(***************************************************************************)
(* Floats.                                                                 *)
(***************************************************************************)
NaN == [k |-> "nan"]

PosInf == [k |-> "inf", s |-> 1]

NegInf == [k |-> "inf", s |-> -1]

Rat(n, d) == [k |-> "rat", num |-> n, den |-> d]

Abs(i) == IF i < 0 THEN -i ELSE i

Sign(i) == IF i < 0 THEN -1 ELSE IF i > 0 THEN 1 ELSE 0

IsNaN(x) == x.k = "nan"

IsRat(x) == x.k = "rat"

\* abs() of a float
FAbs(x) ==
  CASE x.k = "nan" -> NaN
    [] x.k = "inf" -> PosInf
    [] OTHER -> Rat(Abs(x.num), x.den)

\* unary minus
FNeg(x) ==
  CASE x.k = "nan" -> NaN
    [] x.k = "inf" -> [k |-> "inf", s |-> -x.s]
    [] OTHER -> Rat(-x.num, x.den)

\* x * i for a positive integer i
FMulInt(x, i) ==
  CASE x.k = "nan" -> NaN
    [] x.k = "inf" -> x
    [] OTHER -> Rat(x.num * i, x.den)

\* x < y; every comparison with NaN is false
FLt(x, y) ==
  CASE x.k = "nan" \/ y.k = "nan" -> FALSE
    [] x.k = "inf" /\ y.k = "inf" -> x.s < y.s
    [] x.k = "inf" -> x.s < 0
    [] y.k = "inf" -> y.s > 0
    [] OTHER -> x.num * y.den < y.num * x.den

FGt(x, y) == FLt(y, x)

\* x == y; NaN equals nothing
FEq(x, y) ==
  CASE x.k = "nan" \/ y.k = "nan" -> FALSE
    [] x.k = "inf" /\ y.k = "inf" -> x.s = y.s
    [] x.k = "inf" \/ y.k = "inf" -> FALSE
    [] OTHER -> x.num * y.den = y.num * x.den

FLe(x, y) == FLt(x, y) \/ FEq(x, y)

FGe(x, y) == FLe(y, x)

\* a return value (tenths) as a float
Ret(v) == Rat(v, 10)

(***************************************************************************)
(* Sequences of integers.                                                  *)
(***************************************************************************)
RECURSIVE SumSeq(_)
SumSeq(s) == IF s = <<>> THEN 0 ELSE Head(s) + SumSeq(Tail(s))

RECURSIVE Insert(_, _)
Insert(v, s) ==
  IF s = <<>> THEN <<v>>
  ELSE IF v <= Head(s) THEN <<v>> \o s
  ELSE <<Head(s)>> \o Insert(v, Tail(s))

RECURSIVE Sorted(_)
Sorted(s) == IF s = <<>> THEN <<>> ELSE Insert(Head(s), Sorted(Tail(s)))

(***************************************************************************)
(* Data fetching.  What requests.get gives is either a connection error    *)
(* or a response with a status code and a body; a body is not JSON, a JSON *)
(* value no table can be built from, or a list of records.                 *)
(***************************************************************************)
ConnectionError == [kind |-> "ConnectionError"]

Response(status_code, body) ==
  [kind |-> "response", status_code |-> status_code, body |-> body]

NotJson == [json |-> FALSE]

\* a JSON number, string or object of scalars
ScalarJson == [json |-> TRUE, shape |-> "scalar"]

\* a JSON list of records: whether they carry a Date and a Close field,
\* whether the Close values are numbers, and the Close values
Records(has_date, has_close, numeric, close) ==
  [json |-> TRUE, shape |-> "records", has_date |-> has_date,
   has_close |-> has_close, numeric |-> numeric, close |-> close]

\* a JSON object for the price endpoint: price is None when the key is null
PriceJson(has_price, price) ==
  [json |-> TRUE, shape |-> "object", has_price |-> has_price, price |-> price]

RECURSIVE ProdSeq(_)
ProdSeq(s) == IF s = <<>> THEN 1 ELSE Head(s) * ProdSeq(Tail(s))

\* df['Close'].pct_change().dropna(): close[i+1] / close[i] - 1 for each row
\* after the first, over the common denominator of the earlier prices
pct_change(close, has_date) ==
  LET n == IF Len(close) = 0 THEN 0 ELSE Len(close) - 1
      den == ProdSeq(SubSeq(close, 1, n))
  IN [tag |-> "Series", ikind |-> IF has_date THEN "date" ELSE "int",
      index |-> [i \in 1..n |-> i],
      values |-> [i \in 1..n |-> ((close[i + 1] - close[i]) * den) \div close[i]],
      den |-> den]

\* the body of the try block of fetch_historical_returns, lines 30-54
try_fetch_historical_returns(response) ==
  IF response.kind = "ConnectionError" THEN Raise("ConnectionError")
  ELSE IF response.status_code # 200 THEN None
  ELSE LET data == response.body
       IN IF ~data.json THEN Raise("JSONDecodeError")
          ELSE IF data.shape # "records" THEN Raise("ValueError")
          ELSE IF ~data.has_close THEN Raise("KeyError")
          ELSE IF ~data.numeric THEN Raise("TypeError")
          ELSE pct_change(data.close, data.has_date)

\* fetch_historical_returns without the except clause of lines 56-58
fetch_historical_returns_no_except(response) ==
  try_fetch_historical_returns(response)

fetch_historical_returns(response) ==
  LET r == try_fetch_historical_returns(response)
  IN IF IsRaise(r) THEN None ELSE r

\* the body of the try block of fetch_current_price, lines 65-69
try_fetch_current_price(response) ==
  IF response.kind = "ConnectionError" THEN Raise("ConnectionError")
  ELSE IF response.status_code # 200 THEN None
  ELSE LET data == response.body
       IN IF ~data.json THEN Raise("JSONDecodeError")
          ELSE IF data.shape = "scalar" THEN Raise("TypeError")
          ELSE IF data.shape = "records" THEN Raise("TypeError")
          ELSE IF ~data.has_price THEN Raise("KeyError")
          ELSE data.price

fetch_current_price(response) ==
  LET r == try_fetch_current_price(response)
  IN IF IsRaise(r) THEN None ELSE r

(***************************************************************************)
(* np.percentile(values, q), linear interpolation between order            *)
(* statistics: the virtual index is (n-1)*q/100, the result                *)
(* a[lo] + frac*(a[lo+1]-a[lo]).  q is an integer number of percent; the   *)
(* values are integers counted in 1/den.                                   *)
(***************************************************************************)
\* the lower of the two order statistics, without the interpolation
percentile_lower(vals, q, den) ==
  LET a == Sorted(vals)
      n == Len(vals)
      lo == ((n - 1) * q) \div 100
  IN Rat(a[lo + 1] * 100, 100 * den)

\* the percentile with the rank counted from the largest value
percentile_from_top(vals, q, den) ==
  LET a == Sorted(vals)
      n == Len(vals)
      lo == ((n - 1) * (100 - q)) \div 100
      rem == ((n - 1) * (100 - q)) % 100
  IN IF rem = 0
     THEN Rat(a[lo + 1] * 100, 100 * den)
     ELSE Rat(a[lo + 1] * 100 + rem * (a[lo + 2] - a[lo + 1]), 100 * den)

percentile(vals, q, den) ==
  LET a == Sorted(vals)
      n == Len(vals)
      lo == ((n - 1) * q) \div 100
      rem == ((n - 1) * q) % 100
  IN IF rem = 0
     THEN Rat(a[lo + 1] * 100, 100 * den)
     ELSE Rat(a[lo + 1] * 100 + rem * (a[lo + 2] - a[lo + 1]), 100 * den)

(***************************************************************************)
(* calculate_var: historical-simulation Value at Risk.  confidence is an   *)
(* integer number of percent, so the percentile rank (1-confidence)*100    *)
(* is 100 - confidence.                                                    *)
(***************************************************************************)
\* the denominator of the values of a series: tenths unless the series says
Den(returns) == IF "den" \in DOMAIN returns THEN returns.den ELSE 10

\* lines 94-107 without the abs of line 99
historical_var_signed(returns, confidence, portfolio_value) ==
  LET var_percentile == 100 - confidence
      var_return == percentile(returns.values, var_percentile, Den(returns))
      var_pct == var_return
      var_dollar == FMulInt(var_pct, portfolio_value)
  IN IF var_percentile < 0 \/ var_percentile > 100
     THEN Raise("ValueError")   \* np.percentile: percentiles must be in [0, 100]
     ELSE [tag |-> "dict", confidence |-> confidence,
           var_pct |-> var_pct, var_dollar |-> var_dollar]

\* lines 94-107
historical_var(returns, confidence, portfolio_value) ==
  LET var_percentile == 100 - confidence
      var_return == percentile(returns.values, var_percentile, Den(returns))
      var_pct == FAbs(var_return)
      var_dollar == FMulInt(var_pct, portfolio_value)
  IN IF var_percentile < 0 \/ var_percentile > 100
     THEN Raise("ValueError")   \* np.percentile: percentiles must be in [0, 100]
     ELSE [tag |-> "dict", confidence |-> confidence,
           var_pct |-> var_pct, var_dollar |-> var_dollar]

\* calculate_var without the length test of line 91: np.percentile is handed
\* an empty array
calculate_var_no_len_check(returns, confidence, portfolio_value) ==
  IF returns = None THEN None
  ELSE IF len(returns) = 0 THEN Raise("IndexError")
  ELSE historical_var(returns, confidence, portfolio_value)

calculate_var(returns, confidence, portfolio_value) ==
  IF returns = None \/ len(returns) = 0 THEN None
  ELSE historical_var(returns, confidence, portfolio_value)

\* Series.mean(): NaN for an empty selection
mean(vals) ==
  IF vals = <<>> THEN NaN ELSE Rat(SumSeq(vals), 10 * Len(vals))

(***************************************************************************)
(* calculate_cvar: the mean of the returns at or below -VaR.               *)
(***************************************************************************)
calculate_cvar(returns, confidence, portfolio_value) ==
  IF returns = None \/ len(returns) = 0 THEN None
  ELSE IF IsRaise(calculate_var(returns, confidence, portfolio_value))
  THEN calculate_var(returns, confidence, portfolio_value)   \* line 130 raises
  ELSE LET var_result == calculate_var(returns, confidence, portfolio_value)
           var_return == FNeg(var_result.var_pct)
           InTail(v) == FLe(Ret(v), var_return)
           tail_losses == SelectSeq(returns.values, InTail)
           cvar_return == mean(tail_losses)
           cvar_pct == FAbs(cvar_return)
           cvar_dollar == FMulInt(cvar_pct, portfolio_value)
       IN [tag |-> "dict", confidence |-> confidence,
           cvar_pct |-> cvar_pct, cvar_dollar |-> cvar_dollar,
           num_tail_events |-> Len(tail_losses)]

\* Series.std(): the sample standard deviation (ddof = 1) as the square root
\* of a rational; NaN for a single value
SqrtOf(n, d) == [k |-> "sqrt", num |-> n, den |-> d]

\* n * sum(x^2) - sum(x)^2, the numerator of the sample variance times n(n-1)
RECURSIVE SumProd(_, _)
SumProd(x, y) ==
  IF x = <<>> THEN 0 ELSE Head(x) * Head(y) + SumProd(Tail(x), Tail(y))

Dev(x, y) == Len(x) * SumProd(x, y) - SumSeq(x) * SumSeq(y)

\* sqrt(factor) * std(vals); factor 1 is the plain standard deviation
scaled_std(vals, factor) ==
  LET n == Len(vals)
  IN IF n < 2 THEN NaN
     ELSE SqrtOf(factor * Dev(vals, vals), 100 * n * (n - 1))

\* v > limit for a standard deviation v and a rational limit >= 0
SqrtGt(v, limit) ==
  /\ v.k = "sqrt"
  /\ v.num * limit.den * limit.den > limit.num * limit.num * v.den

IsZeroVol(v) == v.k = "sqrt" /\ v.num = 0

TradingDays == 252

(***************************************************************************)
(* calculate_volatility, full-period mode (window = None).                 *)
(***************************************************************************)
calculate_volatility(returns) ==
  IF returns = None \/ len(returns) = 0 THEN None
  ELSE LET daily_vol == scaled_std(returns.values, 1)
           annual_vol == scaled_std(returns.values, TradingDays)
       IN [tag |-> "dict", daily_volatility |-> daily_vol,
           annual_volatility |-> annual_vol]

(***************************************************************************)
(* calculate_max_drawdown.  The cumulative path is kept over the common    *)
(* denominator 10^n: cum[i] = prod_{k<=i} (10 + values[k]) * 10^(n-i).     *)
(***************************************************************************)
RECURSIVE Pow(_, _)
Pow(b, e) == IF e = 0 THEN 1 ELSE b * Pow(b, e - 1)

RECURSIVE Prod(_)
Prod(s) == IF s = <<>> THEN 1 ELSE (10 + Head(s)) * Prod(Tail(s))

\* (1 + returns).cumprod()
cumprod(vals) ==
  [i \in 1..Len(vals) |-> Prod(SubSeq(vals, 1, i)) * Pow(10, Len(vals) - i)]

Max(S) == CHOOSE m \in S : \A x \in S : x <= m

Min(S) == CHOOSE m \in S : \A x \in S : m <= x

\* Series.cummax()
cummax(c) == [i \in 1..Len(c) |-> Max({c[j] : j \in 1..i})]

\* the names bound in the body of calculate_max_drawdown when its result is built
DrawdownLocals ==
  {"self", "returns", "cum_returns", "running_max", "drawdown", "max_dd",
   "max_dd_date", "peak_date", "recovery_date", "recovery",
   "recovery_points", "drawdown_days", "recovery_days"}

\* the names the result dictionary reads (lines 242-249)
DrawdownResultReads ==
  {"max_dd", "peak_date", "max_dd_date", "recovery_date", "drawdown_days",
   "recovery_days", "trough_date"}

\* the locals of calculate_max_drawdown before the result is built (lines 204-239)
drawdown_locals(returns) ==
  LET n == len(returns)
      cum_returns == cumprod(returns.values)
      running_max == cummax(cum_returns)
      drawdown == [i \in 1..n |->
                     Rat(cum_returns[i] - running_max[i], running_max[i])]
      \* positions, 1-based
      trough_pos == Min({i \in 1..n : \A j \in 1..n : FLe(drawdown[i], drawdown[j])})
      max_dd == drawdown[trough_pos]
      max_dd_date == returns.index[trough_pos]
      \* running_max[:max_dd_date]: by position when the labels are integers
      \* (the first max_dd_date entries), by label (inclusive) otherwise
      upto == IF returns.ikind = "int"
              THEN 1..(IF max_dd_date < n THEN max_dd_date ELSE n)
              ELSE 1..trough_pos
      peak_pos == Min({i \in upto : \A j \in upto : running_max[j] <= running_max[i]})
      peak_date == returns.index[peak_pos]
      \* drawdown[max_dd_date:]
      from == IF returns.ikind = "int"
              THEN (max_dd_date + 1)..n
              ELSE trough_pos..n
      recovery_points ==
        IF max_dd_date < returns.index[n]
        THEN {i \in from : FGe(drawdown[i], Rat(0, 1))}
        ELSE {}
      recovery_date ==
        IF recovery_points = {} THEN None
        ELSE Some(returns.index[Min(recovery_points)])
      \* "if recovery_date:" is false for None and for the integer label 0
      truthy == recovery_date # None /\ ~(returns.ikind = "int" /\ recovery_date.v = 0)
  IN [empty_slice |-> upto = {},
      max_dd |-> max_dd,
      max_dd_date |-> max_dd_date,
      peak_date |-> IF upto = {} THEN None ELSE Some(peak_date),
      recovery_date |-> recovery_date,
      drawdown_days |-> IF upto = {} THEN None
                        ELSE IF returns.ikind = "int"
                        THEN Some(Abs(max_dd_date - peak_date))
                        ELSE Some(max_dd_date - peak_date),
      recovery_days |-> IF ~truthy THEN None
                        ELSE IF returns.ikind = "int"
                        THEN Some(Abs(recovery_date.v - max_dd_date))
                        ELSE Some(recovery_date.v - max_dd_date)]

\* a string of the result, such as 'Ongoing'
Text(s) == [tag |-> "str", s |-> s]

\* the entries of the result dictionary before its interpretation entry
\* (lines 241-248): an absent or falsy recovery_date is reported as
\* 'Not yet recovered', an absent or zero recovery_days as 'Ongoing'
drawdown_result(returns, l) ==
  [tag |-> "dict",
   max_drawdown |-> FAbs(l.max_dd),
   peak_date |-> l.peak_date,
   trough_date |-> Some(l.max_dd_date),
   recovery_date |->
     IF l.recovery_date = None THEN Text("Not yet recovered")
     ELSE IF returns.ikind = "int" /\ l.recovery_date.v = 0
     THEN Text("Not yet recovered")
     ELSE l.recovery_date,
   drawdown_days |-> l.drawdown_days,
   recovery_days |->
     IF l.recovery_days = None THEN Text("Ongoing")
     ELSE IF l.recovery_days.v = 0 THEN Text("Ongoing")
     ELSE l.recovery_days]

calculate_max_drawdown(returns) ==
  IF returns = None \/ len(returns) = 0 THEN None
  ELSE IF drawdown_locals(returns).empty_slice
  THEN Raise("ValueError")   \* idxmax of an empty slice
  ELSE IF ~(DrawdownResultReads \subseteq DrawdownLocals)
  THEN Raise("NameError")
  ELSE drawdown_result(returns, drawdown_locals(returns))

(***************************************************************************)
(* calculate_sharpe_ratio.  risk_free_rate is an integer number of         *)
(* percent.  The annualised return (1 + total_return)^(252/n) - 1 is       *)
(* irrational in general, so the estimator is given as the set of results  *)
(* that its exactly known parts allow:                                     *)
(*   - the volatility is exact (NaN for one return, 0 for equal returns);  *)
(*   - the sign of annualized_return - risk_free_rate is exact when        *)
(*     total_return <= 0 (the annualised return has the sign of the total  *)
(*     return) and when total_return > risk_free_rate (for n <= 252 the    *)
(*     exponent is >= 1, so the annualised return is not below the total); *)
(*   - a finite Sharpe ratio is any of SharpeMagnitudes with that sign.    *)
(***************************************************************************)
SharpeMagnitudes ==
  {Rat(1, 4), Rat(1, 2), Rat(3, 4), Rat(1, 1), Rat(3, 2), Rat(2, 1),
   Rat(5, 2), Rat(3, 1), Rat(4, 1)}

\* the signs annualized_return - risk_free_rate can have
excess_signs(vals, risk_free_rate) ==
  LET n == Len(vals)
      growth == Prod(vals)          \* (1 + total_return) * 10^n
      unit == Pow(10, n)
  IN IF growth < unit THEN {-1}
     ELSE IF growth = unit THEN {Sign(0 - risk_free_rate)}
     ELSE IF (growth - unit) * 100 > risk_free_rate * unit THEN {1}
     ELSE {-1, 0, 1}

\* the quotient of line 288 taken without the sign of its numerator
sharpe_values_unsigned(vals, risk_free_rate) ==
  LET annualized_vol == scaled_std(vals, TradingDays)
      signs == excess_signs(vals, risk_free_rate)
  IN IF IsNaN(annualized_vol) THEN {[sharpe |-> NaN, excess_sign |-> sg] : sg \in signs}
     ELSE IF IsZeroVol(annualized_vol)
     THEN {[sharpe |-> PosInf, excess_sign |-> sg] : sg \in signs}
     ELSE UNION {{[sharpe |-> Rat(m.num, m.den), excess_sign |-> sg] :
                    m \in SharpeMagnitudes} : sg \in signs}

\* (annualized_return - risk_free_rate) / annualized_vol, each value with the
\* sign of the numerator it comes from (the result's annualized_return and
\* risk_free_rate entries determine that sign)
sharpe_values(vals, risk_free_rate) ==
  LET annualized_vol == scaled_std(vals, TradingDays)
      signs == excess_signs(vals, risk_free_rate)
  IN IF IsNaN(annualized_vol) THEN {[sharpe |-> NaN, excess_sign |-> sg] : sg \in signs}
     ELSE IF IsZeroVol(annualized_vol)
     THEN {[sharpe |-> IF sg > 0 THEN PosInf ELSE IF sg < 0 THEN NegInf ELSE NaN,
            excess_sign |-> sg] : sg \in signs}
     ELSE UNION {IF sg = 0 THEN {[sharpe |-> Rat(0, 1), excess_sign |-> sg]}
                 ELSE {[sharpe |-> Rat(sg * m.num, m.den), excess_sign |-> sg] :
                         m \in SharpeMagnitudes} : sg \in signs}

\* the rating with the thresholds counted into the upper bucket
rating_closed(sharpe) ==
  IF FGe(sharpe, Rat(3, 1)) THEN "Exceptional"
  ELSE IF FGe(sharpe, Rat(2, 1)) THEN "Very Good"
  ELSE IF FGe(sharpe, Rat(1, 1)) THEN "Good"
  ELSE IF FGe(sharpe, Rat(1, 2)) THEN "Acceptable"
  ELSE IF FGe(sharpe, Rat(0, 1)) THEN "Poor"
  ELSE "Losing Money"

\* the rating of a Sharpe ratio (lines 291-302)
rating(sharpe) ==
  IF FGt(sharpe, Rat(3, 1)) THEN "Exceptional"
  ELSE IF FGt(sharpe, Rat(2, 1)) THEN "Very Good"
  ELSE IF FGt(sharpe, Rat(1, 1)) THEN "Good"
  ELSE IF FGt(sharpe, Rat(1, 2)) THEN "Acceptable"
  ELSE IF FGt(sharpe, Rat(0, 1)) THEN "Poor"
  ELSE "Losing Money"

\* sharpe_label of the dashboard (risk_ui_enchanced.py, lines 397-403): the
\* label and its colour
sharpe_label(s) ==
  IF FGt(s, Rat(3, 1)) THEN [label |-> "Exceptional", colour |-> "green"]
  ELSE IF FGt(s, Rat(2, 1)) THEN [label |-> "Very Good", colour |-> "green"]
  ELSE IF FGt(s, Rat(1, 1)) THEN [label |-> "Good", colour |-> "blue"]
  ELSE IF FGt(s, Rat(5, 10)) THEN [label |-> "Acceptable", colour |-> "gold"]
  ELSE IF FGt(s, Rat(0, 1)) THEN [label |-> "Poor", colour |-> "gold"]
  ELSE [label |-> "Losing Money", colour |-> "red"]

\* the results calculate_sharpe_ratio can return for these arguments
calculate_sharpe_ratio(returns, risk_free_rate) ==
  IF returns = None \/ len(returns) = 0 THEN {None}
  ELSE {[tag |-> "dict",
         sharpe_ratio |-> sv.sharpe,
         excess_sign |-> sv.excess_sign,
         annualized_volatility |-> scaled_std(returns.values, TradingDays),
         risk_free_rate |-> risk_free_rate,
         rating |-> rating(sv.sharpe)] :
        sv \in sharpe_values(returns.values, risk_free_rate)}

(***************************************************************************)
(* calculate_beta.  market_returns is what fetch_historical_returns gave   *)
(* for the benchmark symbol (None when the fetch failed).                  *)
(***************************************************************************)
MinOverlap == 20

Labels(s) == {s.index[i] : i \in 1..len(s)}

ValueAt(s, lab) == s.values[CHOOSE i \in 1..len(s) : s.index[i] = lab]

RECURSIVE SortedSeqOf(_)
SortedSeqOf(S) ==
  IF S = {} THEN <<>> ELSE <<Min(S)>> \o SortedSeqOf(S \ {Min(S)})

\* pd.DataFrame({'asset': ..., 'market': ...}).dropna(): the rows whose label
\* both series have
combined(asset_returns, market_returns) ==
  LET rows == SortedSeqOf(Labels(asset_returns) \cap Labels(market_returns))
  IN [asset |-> [i \in 1..Len(rows) |-> ValueAt(asset_returns, rows[i])],
      market |-> [i \in 1..Len(rows) |-> ValueAt(market_returns, rows[i])]]

\* a quotient of two floats given as integers over a common denominator
Quot(n, d) ==
  IF d = 0 THEN (IF n = 0 THEN NaN ELSE IF n > 0 THEN PosInf ELSE NegInf)
  ELSE IF d < 0 THEN Rat(-n, -d) ELSE Rat(n, d)

\* the classification of a beta (lines 362-373)
beta_interpretation(beta) ==
  IF FGt(beta, Rat(15, 10)) THEN "Highly Aggressive"
  ELSE IF FGt(beta, Rat(12, 10)) THEN "Aggressive"
  ELSE IF FGt(beta, Rat(8, 10)) THEN "Moderate"
  ELSE IF FGt(beta, Rat(5, 10)) THEN "Defensive"
  ELSE IF FGt(beta, Rat(0, 1)) THEN "Very Defensive"
  ELSE "Inverse"

\* lines 350-382, for the aligned rows c
beta_result(c) ==
  LET covariance == Dev(c.asset, c.market)     \* times n(n-1)
      market_variance == Dev(c.market, c.market)
      asset_variance == Dev(c.asset, c.asset)
      beta == Quot(covariance, market_variance)
      r_squared == Quot(covariance * covariance,
                        asset_variance * market_variance)
  IN [tag |-> "dict", beta |-> beta, r_squared |-> r_squared,
      market_benchmark |-> "SPY",
      interpretation |-> beta_interpretation(beta)]

\* calculate_beta with the length of the asset series, not of the aligned
\* rows, held against the minimum
calculate_beta_by_length(asset_returns, market_returns) ==
  IF asset_returns = None \/ len(asset_returns) = 0 THEN None
  ELSE IF market_returns = None
  THEN [tag |-> "dict", beta |-> None, error |-> "Could not fetch market data"]
  ELSE IF len(asset_returns) < MinOverlap
  THEN [tag |-> "dict", beta |-> None, error |-> "Insufficient overlapping data"]
  ELSE beta_result(combined(asset_returns, market_returns))

calculate_beta(asset_returns, market_returns) ==
  IF asset_returns = None \/ len(asset_returns) = 0 THEN None
  ELSE IF market_returns = None
  THEN [tag |-> "dict", beta |-> None, error |-> "Could not fetch market data"]
  ELSE IF Len(combined(asset_returns, market_returns).asset) < MinOverlap
  THEN [tag |-> "dict", beta |-> None, error |-> "Insufficient overlapping data"]
  ELSE beta_result(combined(asset_returns, market_returns))

(***************************************************************************)
(* stress_test.  A shock is an integer number of percent.                  *)
(***************************************************************************)
DefaultScenarios ==
  [sc \in {"Moderate Decline -5%", "Correction -10%", "Bear Market -20%",
           "Severe Crash -30%", "2008 Crisis -50%", "Black Monday -20%",
           "COVID Crash -35%", "Flash Crash -10%"} |->
     CASE sc = "Moderate Decline -5%" -> -5
       [] sc = "Correction -10%" -> -10
       [] sc = "Bear Market -20%" -> -20
       [] sc = "Severe Crash -30%" -> -30
       [] sc = "2008 Crisis -50%" -> -50
       [] sc = "Black Monday -20%" -> -20
       [] sc = "COVID Crash -35%" -> -35
       [] sc = "Flash Crash -10%" -> -10]

\* the positive rational n/d cut to one decimal, in tenths
RoundTenthsDown(n, d) == (10 * n) \div d

\* round(x, 1) of the positive rational n/d, in tenths, ties to even
RoundTenths(n, d) ==
  LET q == (10 * n) \div d
      r == (10 * n) % d
  IN IF 2 * r > d \/ (2 * r = d /\ q % 2 = 1) THEN q + 1 ELSE q

\* stress_scenario with the shock applied only when a recovery can be
\* estimated (the shocked value computed inside the branch of line 427)
stress_scenario_in_branch(shock, portfolio_value, returns) ==
  LET total == SumSeq(returns.values)    \* avg_daily_return = total / (10 n)
      n == len(returns)
      shocked_value == IF total > 0
                       THEN Rat(portfolio_value * (100 + shock), 100)
                       ELSE Rat(portfolio_value, 1)
      loss == IF total > 0
              THEN Rat(portfolio_value * 100 - portfolio_value * (100 + shock), 100)
              ELSE Rat(0, 1)
      \* abs(shock) / avg_daily_return = (|shock| * 10 n) / (100 * total)
      days_num == Abs(shock) * 10 * n
      days_den == 100 * total
  IN [shock_pct |-> shock,
      initial_value |-> portfolio_value,
      shocked_value |-> shocked_value,
      loss_amount |-> loss,
      loss_pct |-> shock,
      days_to_recover |-> IF total > 0 THEN Some(days_num \div days_den)
                          ELSE None,
      years_to_recover |-> IF total > 0
                           THEN Some(Rat(RoundTenths(days_num,
                                                     days_den * TradingDays), 10))
                           ELSE None]

\* one entry of the result (lines 423-442)
stress_scenario(shock, portfolio_value, returns) ==
  LET total == SumSeq(returns.values)    \* avg_daily_return = total / (10 n)
      n == len(returns)
      shocked_value == Rat(portfolio_value * (100 + shock), 100)
      loss == Rat(portfolio_value * 100 - portfolio_value * (100 + shock), 100)
      \* abs(shock) / avg_daily_return = (|shock| * 10 n) / (100 * total)
      days_num == Abs(shock) * 10 * n
      days_den == 100 * total
  IN [shock_pct |-> shock,
      initial_value |-> portfolio_value,
      shocked_value |-> shocked_value,
      loss_amount |-> loss,
      loss_pct |-> shock,
      days_to_recover |-> IF total > 0 THEN Some(days_num \div days_den)
                          ELSE None,
      years_to_recover |-> IF total > 0
                           THEN Some(Rat(RoundTenths(days_num,
                                                     days_den * TradingDays), 10))
                           ELSE None]

stress_test(returns, portfolio_value, scenarios) ==
  IF returns = None \/ len(returns) = 0 THEN None
  ELSE LET sc == IF scenarios = None THEN DefaultScenarios ELSE scenarios.v
       IN [tag |-> "dict",
           results |-> [name \in DOMAIN sc |->
                          stress_scenario(sc[name], portfolio_value, returns)]]

(***************************************************************************)
(* calculate_correlation_matrix.  fetched maps each requested symbol to    *)
(* what fetch_historical_returns gives for it.  A Pearson correlation      *)
(* covxy / sqrt(varx * vary) is kept as its numerator and the square of    *)
(* its denominator.                                                        *)
(***************************************************************************)
Corr(num, sq) == [k |-> "corr", num |-> num, sq |-> sq]

\* DataFrame.corr() for two columns: NaN without rows or with a column of
\* zero variance (a single row included)
pearson(x, y) ==
  LET covxy == Dev(x, y)
      divisor == Dev(x, x) * Dev(y, y)
  IN IF Len(x) < 1 \/ divisor = 0 THEN NaN ELSE Corr(covxy, divisor)

\* lines 462-465: the symbols whose returns could be fetched
returns_dict(symbols, fetched) ==
  {symbols[i] : i \in {j \in 1..Len(symbols) : fetched[symbols[j]] # None}}

\* pd.DataFrame(returns_dict).dropna(): the labels every column has
returns_df_rows(keys, fetched) ==
  SortedSeqOf({lab \in UNION {Labels(fetched[s]) : s \in keys} :
                 \A s \in keys : lab \in Labels(fetched[s])})

calculate_correlation_matrix(symbols, fetched) ==
  LET keys == returns_dict(symbols, fetched)
  IN IF keys = {} THEN None
     ELSE LET rows == returns_df_rows(keys, fetched)
              col(s) == [i \in 1..Len(rows) |-> ValueAt(fetched[s], rows[i])]
          IN [tag |-> "DataFrame",
              rows |-> Len(rows),
              corr |-> [a \in keys |-> [b \in keys |-> pearson(col(a), col(b))]]]

(***************************************************************************)
(* assess_risk, after the fetch of the symbol's returns: the estimators    *)
(* in the order of lines 501-509, the limit checks of lines 511-527 and    *)
(* the assessment of lines 530-548.  An exception raised by an estimator   *)
(* leaves the call at once.                                                *)
(***************************************************************************)
Alert(metric, observed, limit) ==
  [metric |-> metric, observed |-> observed, limit |-> limit]

\* lines 512-527
check_limits(var_95, var_99, volatility, max_dd, sharpe, limits) ==
  (IF var_95 # None /\ FGt(var_95.var_pct, limits.var_95)
   THEN <<Alert("var_95", var_95.var_pct, limits.var_95)>> ELSE <<>>)
  \o (IF var_99 # None /\ FGt(var_99.var_pct, limits.var_99)
      THEN <<Alert("var_99", var_99.var_pct, limits.var_99)>> ELSE <<>>)
  \o (IF volatility # None /\ SqrtGt(volatility.annual_volatility, limits.volatility)
      THEN <<Alert("volatility", volatility.annual_volatility, limits.volatility)>>
      ELSE <<>>)
  \o (IF max_dd # None /\ FGt(max_dd.max_drawdown, limits.max_drawdown)
      THEN <<Alert("max_drawdown", max_dd.max_drawdown, limits.max_drawdown)>>
      ELSE <<>>)
  \o (IF sharpe # None /\ FLt(sharpe.sharpe_ratio, limits.min_sharpe)
      THEN <<Alert("sharpe_ratio", sharpe.sharpe_ratio, limits.min_sharpe)>>
      ELSE <<>>)

\* risk_status with >= for > in the test of line 545
risk_status_ge(alerts) == IF Len(alerts) >= 0 THEN "ALERT" ELSE "OK"

\* line 545
risk_status(alerts) == IF Len(alerts) > 0 THEN "ALERT" ELSE "OK"

DefaultRiskFree == 4

\* lines 501-509: the results of the estimators, or the exception that ends
\* the call
run_estimators(returns, portfolio_value, market_returns) ==
  UNION {IF IsRaise(max_dd) THEN {max_dd}
         ELSE {[tag |-> "metrics",
                var_95 |-> calculate_var(returns, 95, portfolio_value),
                var_99 |-> calculate_var(returns, 99, portfolio_value),
                cvar_95 |-> calculate_cvar(returns, 95, portfolio_value),
                cvar_99 |-> calculate_cvar(returns, 99, portfolio_value),
                volatility |-> calculate_volatility(returns),
                max_drawdown |-> max_dd,
                sharpe_ratio |-> sharpe,
                beta |-> calculate_beta(returns, market_returns),
                stress_test |-> stress_test(returns, portfolio_value, None)] :
               sharpe \in calculate_sharpe_ratio(returns, DefaultRiskFree)} :
         max_dd \in {calculate_max_drawdown(returns)}}

\* lines 511-548: the limit checks and the assessment for the results m
assessment(symbol, returns, portfolio_value, m, limits) ==
  [tag |-> "dict",
   symbol |-> symbol,
   portfolio_value |-> portfolio_value,
   data_points |-> len(returns),
   var_95 |-> m.var_95, var_99 |-> m.var_99,
   cvar_95 |-> m.cvar_95, cvar_99 |-> m.cvar_99,
   volatility |-> m.volatility,
   max_drawdown |-> m.max_drawdown,
   sharpe_ratio |-> m.sharpe_ratio,
   beta |-> m.beta,
   stress_test |-> m.stress_test,
   alerts |-> check_limits(m.var_95, m.var_99, m.volatility, m.max_drawdown,
                           m.sharpe_ratio, limits),
   risk_status |-> risk_status(check_limits(m.var_95, m.var_99, m.volatility,
                                            m.max_drawdown, m.sharpe_ratio,
                                            limits))]

\* the outcomes of assess_risk for the fetched returns (not None)
assess_computed(symbol, returns, portfolio_value, limits, market_returns) ==
  {IF IsRaise(m) THEN m
   ELSE assessment(symbol, returns, portfolio_value, m, limits) :
   m \in run_estimators(returns, portfolio_value, market_returns)}

(***************************************************************************)
(* Inputs: the return series an estimator can be handed.                   *)
(***************************************************************************)
SeqsUpTo(S, n) == UNION {[1..m -> S] : m \in 0..n}

\* the labels 1..n that pct_change().dropna() leaves of a record list
DayIndex(n) == [i \in 1..n |-> i]

SmallSeries == {Series(DayIndex(Len(v)), v) : v \in SeqsUpTo(ReturnValues, MaxLen)}

\* what fetch_historical_returns can give: None on any failure, else a series
SeriesInputs == {None} \cup SmallSeries

\* the series a record list with a Date column gives: the labels are dates,
\* counted in days
DatedSeries == {[r EXCEPT !.ikind = "date"] : r \in SmallSeries}

\* a few fetched series, for the calls that are compared with each other
RepeatSeries ==
  {Series(<<>>, <<>>), Series(<<1>>, <<-2>>), Series(<<1, 2>>, <<1, -1>>),
   Series(<<1, 2, 3>>, <<2, -1, 1>>)}

\* the ten returns 0.01, -0.02, 0.015, -0.03, 0.005, -0.01, 0.02, -0.015,
\* 0.01, -0.025 of the VaR example, counted in 1/200
VarExampleSeries ==
  [tag |-> "Series", ikind |-> "int", index |-> DayIndex(10),
   values |-> <<2, -4, 3, -6, 1, -2, 4, -3, 2, -5>>, den |-> 200]

\* longer series, for the overlap rule of calculate_beta: n consecutive
\* labels from start, the values following pattern k
MaxBetaLen == 21

MaxStart == 2

Patterns == {0, 1, 2}

PatternVal(k, d) == ((k * d) % 5) - 2

LongSeries(start, n, k) ==
  Series([i \in 1..n |-> start + i - 1],
         [i \in 1..n |-> PatternVal(k, start + i - 1)])

LongSeriesSet ==
  {LongSeries(st, n, k) :
     st \in 1..MaxStart, n \in {0} \cup ((MinOverlap - 1)..MaxBetaLen), k \in Patterns}

BetaInputs == {None} \cup LongSeriesSet

ScenarioInputs == {None, Some([sc \in {"Crash"} |-> -20])}

RiskFreeRates == {0, DefaultRiskFree}

Symbols == {"AAPL"}

\* calculate_correlation_matrix: the requested symbols and what the fetch
\* gives for each: None, a series on the labels 1..n, or one on later labels
CorrSymbols == {"AAPL", "MSFT"}

SymbolLists == SeqsUpTo(CorrSymbols, 2)

CorrValues == {-1, 0, 2}

CorrInputs ==
  {None, LongSeries(MaxLen + 1, 2, 1)}
    \cup {Series(DayIndex(Len(v)), v) : v \in SeqsUpTo(CorrValues, MaxLen)}

\* what the market-data provider can answer
StatusCodes == {200, 404, 500}

ClosePrices == {10, 11}

RecordBodies ==
  {Records(d, c, n, IF c /\ n THEN p ELSE <<>>) :
     d \in BOOLEAN, c \in BOOLEAN, n \in BOOLEAN,
     p \in SeqsUpTo(ClosePrices, MaxLen)}

PriceBodies == {PriceJson(FALSE, None), PriceJson(TRUE, None), PriceJson(TRUE, Some(10))}

Responses ==
  {ConnectionError}
    \cup {Response(st, b) :
            st \in StatusCodes,
            b \in {NotJson, ScalarJson} \cup RecordBodies \cup PriceBodies}

(***************************************************************************)
(* MarketDataStorage (market_data/storage.py).  The database is one SQLite *)
(* file; every thread has a connection of its own (lines 17-25).  A row    *)
(* of realtime_prices has an AUTOINCREMENT id, so a new row gets an id     *)
(* above every id used before.  An INSERT takes the write lock of the      *)
(* file and keeps it until the commit or the rollback; a connection that   *)
(* finds the lock taken waits and, when its busy timeout ends, gets        *)
(* OperationalError.  Readers see committed rows only.                     *)
(***************************************************************************)
MaxRows == 3

StorageThreads == {1, 2}

\* the data points handed to save_realtime_data: the timestamp is the text
\* the collector put into the point, counted here in ticks
ValidPoints ==
  {[symbol |-> "AAPL", timestamp |-> 2, price |-> Some(10)],
   [symbol |-> "AAPL", timestamp |-> 1, price |-> Some(11)],
   [symbol |-> "MSFT", timestamp |-> 1, price |-> Some(10)]}

\* a point without a price (NOT NULL fails: IntegrityError) and a point
\* without the timestamp key (KeyError)
InvalidPoints ==
  {[symbol |-> "AAPL", timestamp |-> 2, price |-> None],
   [symbol |-> "MSFT", price |-> Some(11)]}

DataPoints == ValidPoints \cup InvalidPoints

\* lines 71-85 raise for this point
InsertRaises(data) ==
  \/ ~({"symbol", "timestamp", "price"} \subseteq DOMAIN data)
  \/ data.price = None

\* the symbol lists handed to get_latest_prices
SymbolQueries == {None, Some(<<>>), Some(<<"AAPL">>), Some(<<"MSFT", "AAPL">>)}

\* rows: the committed rows in the order of their commits; seq: the largest
\* id ever committed; lock: the thread holding the write lock (0 for none);
\* pending: the inserted, uncommitted row of that thread
EmptyDb == [rows |-> <<>>, seq |-> 0, lock |-> 0, pending |-> None]

IdleThread == [pc |-> "idle", data |-> None, symbols |-> None, out |-> None]

\* "if symbols:" of line 133: None and the empty list are both false
Truthy(symbols) == symbols # None /\ symbols.v # <<>>

\* get_latest_prices without the test of line 133: every list is applied
get_latest_prices_every_list(rows, symbols) ==
  {[symbol |-> rows[i].symbol, price |-> rows[i].price,
    timestamp |-> rows[i].timestamp] :
     i \in {j \in 1..Len(rows) :
              /\ rows[j].id \in {Max({rows[k].id : k \in {m \in 1..Len(rows) :
                                                           rows[m].symbol = sym}}) :
                                  sym \in {rows[k].symbol : k \in 1..Len(rows)}}
              /\ symbols # None
                   => \E k \in 1..Len(symbols.v) : symbols.v[k] = rows[j].symbol}}

\* the query of get_latest_prices (lines 123-138): the rows whose id is the
\* largest id of their symbol, of the listed symbols when a list is applied;
\* the rows of the DataFrame as a set of (symbol, price, timestamp)
get_latest_prices(rows, symbols) ==
  {[symbol |-> rows[i].symbol, price |-> rows[i].price,
    timestamp |-> rows[i].timestamp] :
     i \in {j \in 1..Len(rows) :
              /\ rows[j].id \in {Max({rows[k].id : k \in {m \in 1..Len(rows) :
                                                           rows[m].symbol = sym}}) :
                                  sym \in {rows[k].symbol : k \in 1..Len(rows)}}
              /\ Truthy(symbols)
                   => \E k \in 1..Len(symbols.v) : symbols.v[k] = rows[j].symbol}}

(***************************************************************************)
(* State.                                                                  *)
(***************************************************************************)
VARIABLES
  risk_limits,  \* the agent's limits (self.risk_limits)
  pc,           \* position of the current call
  op,           \* the operation called
  args,         \* its arguments and, for assess_risk, the fetched returns
  result,       \* what it returned or raised
  calls,        \* per concurrent caller of assess_risk: its call in progress
  db,           \* the market-data database (the SQLite file)
  th            \* per thread of the market-data API: its storage call

vars == <<risk_limits, pc, op, args, result, calls, db, th>>

NoArgs == [tag |-> "none"]

\* the callers that share the one agent of the API process
Callers == {1, 2}

\* a caller with no call in progress
IdleCall ==
  [pc |-> "Idle", limits |-> None, returns |-> None, portfolio_value |-> 0,
   result |-> None]

Init ==
  /\ risk_limits = [var_95 |-> Rat(5, 100), var_99 |-> Rat(10, 100),
                    volatility |-> Rat(30, 100), max_drawdown |-> Rat(20, 100),
                    min_sharpe |-> Rat(1, 1)]
  /\ pc = "Idle"
  /\ op = "none"
  /\ args = NoArgs
  /\ result = None
  /\ calls = [t \in Callers |-> IdleCall]
  /\ db = EmptyDb
  /\ th = [t \in StorageThreads |-> IdleThread]

\* a call of an estimator that returns r for the arguments a
Returned(name, a, r) ==
  /\ pc = "Idle"
  /\ pc' = "Returned"
  /\ op' = name
  /\ args' = a
  /\ result' = r
  /\ UNCHANGED <<risk_limits, calls, db, th>>

CallVar ==
  \E r \in SeriesInputs \cup {VarExampleSeries},
     c \in Confidences \cup InvalidConfidences,
     pv \in PortfolioValues \cup InvalidPortfolioValues :
    Returned("calculate_var",
             [returns |-> r, confidence |-> c, portfolio_value |-> pv],
             calculate_var(r, c, pv))

CallCvar ==
  \E r \in SeriesInputs,
     c \in Confidences \cup InvalidConfidences,
     pv \in PortfolioValues \cup InvalidPortfolioValues :
    Returned("calculate_cvar",
             [returns |-> r, confidence |-> c, portfolio_value |-> pv],
             calculate_cvar(r, c, pv))

CallVolatility ==
  \E r \in SeriesInputs :
    Returned("calculate_volatility", [returns |-> r], calculate_volatility(r))

CallDrawdown ==
  \E r \in SeriesInputs \cup DatedSeries :
    Returned("calculate_max_drawdown", [returns |-> r],
             calculate_max_drawdown(r))

CallSharpe ==
  \E r \in SeriesInputs, rf \in RiskFreeRates :
    \E res \in calculate_sharpe_ratio(r, rf) :
      Returned("calculate_sharpe_ratio",
               [returns |-> r, risk_free_rate |-> rf], res)

\* calculate_beta fetches the benchmark itself: m is what the fetch gives
CallBeta ==
  \E a \in BetaInputs \cup {Series(<<1>>, <<1>>)}, m \in BetaInputs :
    Returned("calculate_beta",
             [asset_returns |-> a, market_returns |-> m],
             calculate_beta(a, m))

CallStress ==
  \E r \in SeriesInputs, pv \in PortfolioValues, sc \in ScenarioInputs :
    Returned("stress_test",
             [returns |-> r, portfolio_value |-> pv, scenarios |-> sc],
             stress_test(r, pv, sc))

CallCorrelation ==
  \E symbols \in SymbolLists :
    \E fetched \in [{symbols[i] : i \in 1..Len(symbols)} -> CorrInputs] :
      Returned("calculate_correlation_matrix",
               [symbols |-> symbols, fetched |-> fetched],
               calculate_correlation_matrix(symbols, fetched))

CallFetchReturns ==
  \E response \in Responses :
    Returned("fetch_historical_returns", [response |-> response],
             fetch_historical_returns(response))

CallFetchPrice ==
  \E response \in Responses :
    Returned("fetch_current_price", [response |-> response],
             fetch_current_price(response))

\* assess_risk, lines 492-496: the fetch of the symbol's returns
AssessFetch ==
  /\ pc = "Idle"
  /\ \E sym \in Symbols, pv \in PortfolioValues, fetched \in SeriesInputs :
       /\ op' = "assess_risk"
       /\ args' = [symbol |-> sym, portfolio_value |-> pv, returns |-> fetched]
       /\ IF fetched = None
          THEN /\ pc' = "Failed"
               /\ result' = [tag |-> "dict", error |-> "Could not fetch data"]
          ELSE /\ pc' = "Computing"
               /\ result' = None
  /\ UNCHANGED <<risk_limits, calls, db, th>>

\* assess_risk, lines 498-548
AssessCompute ==
  /\ pc = "Computing"
  /\ \E m \in {None, LongSeries(1, MinOverlap, 1)} :
       \E out \in assess_computed(args.symbol, args.returns,
                                  args.portfolio_value, risk_limits, m) :
         /\ result' = out
         /\ pc' = IF IsRaise(out) THEN "Raised" ELSE "Assessed"
  /\ UNCHANGED <<risk_limits, op, args, calls, db, th>>

(***************************************************************************)
(* The metric endpoints of the risk API (api.py, lines 25-114).  Each one  *)
(* fetches the returns of the symbol, raises HTTPException(404) inside its *)
(* try block when they are None, calls its estimator with the defaults of  *)
(* its query parameters, and has one handler, except Exception, that       *)
(* raises HTTPException(500, str(e)).  HTTPException is an Exception.      *)
(***************************************************************************)
HTTPException(status_code, detail) ==
  [tag |-> "raise", exc |-> "HTTPException", status_code |-> status_code,
   detail |-> detail]

\* str(e) of the exception e
StrOf(e) == [tag |-> "str", of |-> e]

\* the response of an endpoint that returns result
Ok(body) == [tag |-> "response", status_code |-> 200, body |-> body]

MetricEndpoints ==
  {"/var", "/cvar", "/volatility", "/sharpe", "/beta", "/drawdown", "/stress"}

\* the outcomes of the estimator call of an endpoint
endpoint_estimator(endpoint, returns, market_returns) ==
  CASE endpoint = "/var" -> {calculate_var(returns, 95, 100000)}
    [] endpoint = "/cvar" -> {calculate_cvar(returns, 95, 100000)}
    [] endpoint = "/volatility" -> {calculate_volatility(returns)}
    [] endpoint = "/sharpe" -> calculate_sharpe_ratio(returns, DefaultRiskFree)
    [] endpoint = "/beta" -> {calculate_beta(returns, market_returns)}
    [] endpoint = "/drawdown" -> {calculate_max_drawdown(returns)}
    [] endpoint = "/stress" -> {stress_test(returns, 100000, None)}

\* the body of the try block of an endpoint
try_endpoint(endpoint, returns, market_returns) ==
  IF returns = None THEN {HTTPException(404, "Could not fetch data")}
  ELSE endpoint_estimator(endpoint, returns, market_returns)

\* an endpoint: what the try block raises, the handler turns into status 500
get_metric(endpoint, returns, market_returns) ==
  {IF IsRaise(out) THEN HTTPException(500, StrOf(out)) ELSE Ok(out) :
     out \in try_endpoint(endpoint, returns, market_returns)}

\* what the fetch of an endpoint can give
EndpointSeries == {None} \cup RepeatSeries

\* a request to a metric endpoint
GetMetric ==
  \E endpoint \in MetricEndpoints, fetched \in EndpointSeries,
     m \in {None, LongSeries(1, MinOverlap, 1)} :
    \E response \in get_metric(endpoint, fetched, m) :
      Returned("GET",
               [endpoint |-> endpoint, returns |-> fetched, market_returns |-> m],
               response)

\* the caller takes the result; the agent is ready for the next call
Return ==
  /\ pc \in {"Returned", "Assessed", "Failed", "Raised"}
  /\ pc' = "Idle"
  /\ op' = "none"
  /\ args' = NoArgs
  /\ result' = None
  /\ UNCHANGED <<risk_limits, calls, db, th>>

Next ==
  \/ CallVar
  \/ CallCvar
  \/ CallVolatility
  \/ CallDrawdown
  \/ CallSharpe
  \/ CallBeta
  \/ CallStress
  \/ CallCorrelation
  \/ CallFetchReturns
  \/ CallFetchPrice
  \/ AssessFetch
  \/ AssessCompute
  \/ GetMetric
  \/ Return

Spec == Init /\ [][Next]_vars

(***************************************************************************)
(* Concurrent assessments.  The API process has one agent (api.py line 15) *)
(* and serves requests on several threads; assess_risk takes no limits,    *)
(* so a caller that wants limits of its own assigns the agent's            *)
(* risk_limits before its call.  The steps of a call are the fetch (line   *)
(* 493), the estimators (lines 501-509) and the limit checks with the      *)
(* assessment (lines 511-548), which read self.risk_limits when they run.  *)
(***************************************************************************)
StrictLimits ==
  [var_95 |-> Rat(1, 100), var_99 |-> Rat(2, 100), volatility |-> Rat(10, 100),
   max_drawdown |-> Rat(5, 100), min_sharpe |-> Rat(2, 1)]

DefaultLimits ==
  [var_95 |-> Rat(5, 100), var_99 |-> Rat(10, 100), volatility |-> Rat(30, 100),
   max_drawdown |-> Rat(20, 100), min_sharpe |-> Rat(1, 1)]

LimitChoices == {DefaultLimits, StrictLimits}

CallerSeries ==
  {None, Series(<<>>, <<>>), Series(<<1>>, <<-2>>), Series(<<1, 2>>, <<1, -1>>)}

\* the caller sets the limits it wants for its call
Configure(t) ==
  /\ calls[t].pc = "Idle"
  /\ \E l \in LimitChoices :
       /\ risk_limits' = l
       /\ calls' = [calls EXCEPT ![t] = [IdleCall EXCEPT !.pc = "Configured",
                                                         !.limits = l]]
  /\ UNCHANGED <<pc, op, args, result, db, th>>

\* lines 492-496
StartAssess(t) ==
  /\ calls[t].pc = "Configured"
  /\ \E fetched \in CallerSeries, pv \in PortfolioValues :
       calls' = [calls EXCEPT ![t] =
                   IF fetched = None
                   THEN [@ EXCEPT !.pc = "Failed", !.portfolio_value = pv,
                                  !.result = [tag |-> "dict",
                                              error |-> "Could not fetch data"]]
                   ELSE [@ EXCEPT !.pc = "Computing", !.portfolio_value = pv,
                                  !.returns = fetched]]
  /\ UNCHANGED <<risk_limits, pc, op, args, result, db, th>>

\* lines 501-509: an exception of an estimator ends the call
RunEstimators(t) ==
  /\ calls[t].pc = "Computing"
  /\ \E m \in run_estimators(calls[t].returns, calls[t].portfolio_value, None) :
       calls' = [calls EXCEPT ![t] =
                   IF IsRaise(m)
                   THEN [@ EXCEPT !.pc = "Raised", !.result = m]
                   ELSE [@ EXCEPT !.pc = "Checking", !.result = m]]
  /\ UNCHANGED <<risk_limits, pc, op, args, result, db, th>>

\* lines 511-548: the checks read the agent's limits as they are now
CheckLimits(t) ==
  /\ calls[t].pc = "Checking"
  /\ calls' = [calls EXCEPT ![t] =
                 [@ EXCEPT !.pc = "Assessed",
                           !.result = assessment("AAPL", calls[t].returns,
                                                 calls[t].portfolio_value,
                                                 calls[t].result, risk_limits)]]
  /\ UNCHANGED <<risk_limits, pc, op, args, result, db, th>>

\* the caller takes the outcome
Finish(t) ==
  /\ calls[t].pc \in {"Failed", "Raised", "Assessed"}
  /\ calls' = [calls EXCEPT ![t] = IdleCall]
  /\ UNCHANGED <<risk_limits, pc, op, args, result, db, th>>

NextConcurrent ==
  \E t \in Callers :
    \/ Configure(t)
    \/ StartAssess(t)
    \/ RunEstimators(t)
    \/ CheckLimits(t)
    \/ Finish(t)

SpecConcurrent == Init /\ [][NextConcurrent]_vars

(***************************************************************************)
(* Properties.                                                             *)
(***************************************************************************)
Called(name) == pc = "Returned" /\ op = name

NonEmpty(r) == r # None /\ len(r) > 0

\* the confidence of the current call is inside (0,1) and its portfolio
\* value is positive
ValidConfig ==
  /\ args.confidence > 0 /\ args.confidence < 100
  /\ args.portfolio_value > 0

\* the VaR loss fraction of the arguments of the current call
VarPctOfCall ==
  calculate_var(args.returns, args.confidence, args.portfolio_value).var_pct

\* no return of the series is at or below -VaR
ZeroTail ==
  \A i \in 1..len(args.returns) :
    ~FLe(Ret(args.returns.values[i]), FNeg(VarPctOfCall))

\* C1: for every non-empty series and every confidence, the CVaR loss
\* fraction is greater than or equal to the VaR loss fraction of the same
\* series and confidence.
C1_CVaRAtLeastVaR ==
  (Called("calculate_cvar") /\ ValidConfig /\ NonEmpty(args.returns))
    => FGe(result.cvar_pct, VarPctOfCall)

\* With at least one tail event the CVaR loss fraction is at least the VaR
\* loss fraction: the order of C1 fails only where the tail is empty.
CVaRAtLeastVaRWithTail ==
  (Called("calculate_cvar") /\ ValidConfig /\ NonEmpty(args.returns) /\ ~ZeroTail)
    => FGe(result.cvar_pct, VarPctOfCall)

\* C2: with zero tail events the CVaR loss fraction equals the VaR loss
\* fraction, tail_event_count is 0, and the loss fraction is never NaN.
C2_ZeroTailFallsBackToVaR ==
  (Called("calculate_cvar") /\ ValidConfig /\ NonEmpty(args.returns) /\ ZeroTail)
    => /\ result.num_tail_events = 0
       /\ ~IsNaN(result.cvar_pct)
       /\ FEq(result.cvar_pct, VarPctOfCall)

\* C3: for every non-empty series calculate_max_drawdown completes without
\* raising and returns a result holding max_drawdown, peak_date,
\* trough_date, recovery_date and the two durations.
C3_DrawdownReturnsResult ==
  (Called("calculate_max_drawdown") /\ NonEmpty(args.returns))
    => /\ ~IsRaise(result)
       /\ {"max_drawdown", "peak_date", "trough_date", "recovery_date",
           "drawdown_days", "recovery_days"} \subseteq DOMAIN result

AssessEnded == op = "assess_risk" /\ pc \in {"Assessed", "Failed", "Raised"}

MetricFields ==
  {"var_95", "var_99", "cvar_95", "cvar_99", "volatility", "max_drawdown",
   "sharpe_ratio", "beta", "stress_test"}

\* C4: when the fetched series is absent or empty, assess_risk ends with an
\* error outcome that carries no metric results, no alert list and no
\* OK/ALERT status.
C4_NoDataFailsWithoutMetrics ==
  (AssessEnded /\ (args.returns = None \/ len(args.returns) = 0))
    => /\ "error" \in DOMAIN result
       /\ DOMAIN result \cap (MetricFields \cup {"alerts", "risk_status"}) = {}

\* the alert list an ended call of assess_risk hands back
AlertsOf(res) == IF "alerts" \in DOMAIN res THEN res.alerts ELSE <<>>

\* the metrics in the order of their limit checks, and whether the metric
\* computed in the ended call breaches its limit
BreachedMetrics ==
  LET r == args.returns
      pv == args.portfolio_value
      var_95 == calculate_var(r, 95, pv)
      var_99 == calculate_var(r, 99, pv)
      volatility == calculate_volatility(r)
      \* a metric after the point where the call was left is not computed
      max_dd == IF pc = "Assessed" THEN result.max_drawdown ELSE None
      sharpe == IF pc = "Assessed" THEN result.sharpe_ratio ELSE None
  IN (IF var_95 # None /\ FGt(var_95.var_pct, risk_limits.var_95)
      THEN <<"var_95">> ELSE <<>>)
     \o (IF var_99 # None /\ FGt(var_99.var_pct, risk_limits.var_99)
         THEN <<"var_99">> ELSE <<>>)
     \o (IF volatility # None
            /\ SqrtGt(volatility.annual_volatility, risk_limits.volatility)
         THEN <<"volatility">> ELSE <<>>)
     \o (IF max_dd # None /\ FGt(max_dd.max_drawdown, risk_limits.max_drawdown)
         THEN <<"max_drawdown">> ELSE <<>>)
     \o (IF sharpe # None /\ FLt(sharpe.sharpe_ratio, risk_limits.min_sharpe)
         THEN <<"sharpe_ratio">> ELSE <<>>)

\* C5: an alert for a metric is present if and only if the metric was
\* computed and its observed value breaches its limit (strictly), and the
\* alerts appear in the order VaR95, VaR99, volatility, max drawdown, Sharpe.
C5_AlertIffBreach ==
  (AssessEnded /\ args.returns # None)
    => [i \in 1..Len(AlertsOf(result)) |-> AlertsOf(result)[i].metric]
         = BreachedMetrics

\* C6: in every assessment returned by assess_risk the status is ALERT
\* exactly when the alert list is non-empty and OK exactly when it is empty;
\* no other status occurs.
C6_StatusMatchesAlerts ==
  (op = "assess_risk" /\ pc = "Assessed")
    => /\ result.risk_status \in {"OK", "ALERT"}
       /\ result.risk_status = "ALERT" <=> Len(result.alerts) > 0
       /\ result.risk_status = "OK" <=> Len(result.alerts) = 0

C6_Witness ==
  /\ op = "assess_risk" /\ pc = "Assessed"
  /\ result.alerts = <<>> /\ result.risk_status = "OK"

\* the number of labels the two series of a calculate_beta call share
Overlap ==
  IF args.asset_returns = None \/ args.market_returns = None THEN 0
  ELSE Cardinality(Labels(args.asset_returns) \cap Labels(args.market_returns))

InsufficientOverlap ==
  [tag |-> "dict", beta |-> None, error |-> "Insufficient overlapping data"]

\* C7 as stated: for an asset series and a benchmark series, whenever the
\* overlap has fewer than 20 points calculate_beta returns the
\* InsufficientOverlap failure.
C7_ShortOverlapIsInsufficientOverlap ==
  (/\ Called("calculate_beta")
   /\ args.asset_returns # None /\ args.market_returns # None
   /\ Overlap < MinOverlap)
    => result = InsufficientOverlap

\* C7 as amended: whenever the overlap, counted over the labels present in
\* both series, has fewer than 20 points, calculate_beta returns a failure
\* and never a numeric beta: None for an absent or empty asset series, the
\* fetch failure for an absent benchmark, InsufficientOverlap otherwise.
C7_ShortOverlapNeverNumeric ==
  (Called("calculate_beta") /\ Overlap < MinOverlap)
    => IF args.asset_returns = None \/ len(args.asset_returns) = 0
       THEN result = None
       ELSE IF args.market_returns = None
       THEN result = [tag |-> "dict", beta |-> None,
                      error |-> "Could not fetch market data"]
       ELSE result = InsufficientOverlap

\* both series have at least 20 points, fewer than 20 of them in common
C7_Witness ==
  /\ Called("calculate_beta")
  /\ args.asset_returns # None /\ args.market_returns # None
  /\ len(args.asset_returns) >= MinOverlap
  /\ len(args.market_returns) >= MinOverlap
  /\ Overlap < MinOverlap
  /\ result = InsufficientOverlap

\* C8: for the VaR, CVaR, volatility, drawdown and Sharpe estimators an
\* empty or absent series yields None and never an exception.
C8_EmptyOrAbsentGivesNone ==
  (/\ pc = "Returned"
   /\ op \in {"calculate_var", "calculate_cvar", "calculate_volatility",
              "calculate_max_drawdown", "calculate_sharpe_ratio"}
   /\ (args.returns = None \/ len(args.returns) = 0))
    => result = None

C8_Witness ==
  /\ Called("calculate_var")
  /\ args.returns # None /\ len(args.returns) = 0
  /\ result = None

\* fewer than 2 periods, or all returns identical (zero volatility)
Degenerate(r) ==
  \/ len(r) < 2
  \/ \A i, j \in 1..len(r) : r.values[i] = r.values[j]

\* C9: calculate_sharpe_ratio returns a failure or absent result, never a
\* Sharpe ratio or rating, when the series is shorter than 2 periods or its
\* volatility is 0.
C9_DegenerateSharpeIsAbsent ==
  (Called("calculate_sharpe_ratio") /\ args.returns # None
   /\ Degenerate(args.returns))
    => \/ result = None
       \/ DOMAIN result \cap {"sharpe_ratio", "rating"} = {}

ScenariosOf(sc) == IF sc = None THEN DefaultScenarios ELSE sc.v

\* C10: for every scenario, shocked_value = portfolio_value * (1 + shock) and
\* loss = portfolio_value - shocked_value whatever the return series; a
\* shock of -20% on 100000 gives 80000 and 20000.
C10_ShockedValueAndLoss ==
  (Called("stress_test") /\ NonEmpty(args.returns))
    => LET sc == ScenariosOf(args.scenarios)
           pv == args.portfolio_value
       IN /\ result # None
          /\ DOMAIN result.results = DOMAIN sc
          /\ \A name \in DOMAIN sc :
               LET e == result.results[name]
                   sv == e.shocked_value
               IN /\ FEq(sv, Rat(pv * (100 + sc[name]), 100))
                  /\ FEq(e.loss_amount, Rat(pv * sv.den - sv.num, sv.den))
                  /\ (sc[name] = -20 /\ pv = 100000)
                       => /\ FEq(sv, Rat(80000, 1))
                          /\ FEq(e.loss_amount, Rat(20000, 1))

\* a series whose average daily return is not positive
C10_Witness ==
  /\ Called("stress_test") /\ NonEmpty(args.returns)
  /\ SumSeq(args.returns.values) <= 0
  /\ args.portfolio_value = 100000 /\ args.scenarios = None
  /\ FEq(result.results["Bear Market -20%"].shocked_value, Rat(80000, 1))
  /\ FEq(result.results["Bear Market -20%"].loss_amount, Rat(20000, 1))

\* the cumulative growth path of the series never decreases
NonDecreasingPath(r) ==
  LET c == cumprod(r.values)
  IN \A i \in 2..Len(c) : c[i] >= c[i - 1]

\* C11: for every series whose cumulative growth path never decreases,
\* calculate_max_drawdown yields max_drawdown = 0 with peak = trough = the
\* first index and an immediate recovery: the recovery index is the first
\* index and nothing is reported as not recovered or ongoing.
C11_MonotonePathRecoversAtOnce ==
  (/\ Called("calculate_max_drawdown") /\ NonEmpty(args.returns)
   /\ NonDecreasingPath(args.returns))
    => LET first == args.returns.index[1]
       IN /\ result.tag = "dict"
          /\ FEq(result.max_drawdown, Rat(0, 1))
          /\ result.peak_date = Some(first)
          /\ result.trough_date = Some(first)
          /\ result.recovery_date = Some(first)
          /\ result.recovery_days.tag = "some"

\* every return of the series is the same value
AllEqual(r) == \A i \in 1..len(r) : r.values[i] = r.values[1]

\* C12: for a series whose returns all equal the same value r, calculate_var
\* yields var_pct = |r| at every confidence level.
C12_IdenticalReturnsGiveAbsR ==
  (/\ Called("calculate_var") /\ ValidConfig
   /\ NonEmpty(args.returns) /\ AllEqual(args.returns))
    => /\ result # None
       /\ FEq(result.var_pct, Rat(Abs(args.returns.values[1]), Den(args.returns)))

\* three equal negative returns at an interpolating percentile rank
C12_Witness ==
  /\ Called("calculate_var") /\ args.returns # None
  /\ args.returns.values = <<-2, -2, -2>> /\ args.confidence = 95
  /\ FEq(result.var_pct, Rat(2, 10))

\* the k-th smallest value of a sequence, counted with repetitions
OrderStat(vals, k) ==
  CHOOSE v \in {vals[i] : i \in 1..Len(vals)} :
    /\ Cardinality({i \in 1..Len(vals) : vals[i] < v}) < k
    /\ Cardinality({i \in 1..Len(vals) : vals[i] <= v}) >= k

\* the p-th percentile of the returns of a series (p an integer number of
\* percent) by linear interpolation between the two nearest order
\* statistics, as a pair <<numerator, denominator>>
InterpolatedPercentile(r, p) ==
  LET n == len(r)
      h == (n - 1) * p                  \* the rank, in hundredths
      below == OrderStat(r.values, (h \div 100) + 1)
      above == OrderStat(r.values, IF h % 100 = 0 THEN (h \div 100) + 1
                                   ELSE (h \div 100) + 2)
  IN <<100 * below + (h % 100) * (above - below), 100 * Den(r)>>

\* C13: for every non-empty series and confidence c, var_pct is the absolute
\* value of the (1-c)*100-th percentile interpolated linearly between the
\* two nearest order statistics of the ascending returns, and var_dollar is
\* var_pct * portfolio_value; the ten-point example at confidence 0.9 has
\* var_pct 0.0255.
C13_VarIsInterpolatedPercentile ==
  (Called("calculate_var") /\ ValidConfig /\ NonEmpty(args.returns))
    => LET p == InterpolatedPercentile(args.returns, 100 - args.confidence)
       IN /\ result # None
          /\ result.var_pct.k = "rat"
          /\ result.var_pct.num * p[2] = Abs(p[1]) * result.var_pct.den
          /\ result.var_dollar =
               Rat(result.var_pct.num * args.portfolio_value, result.var_pct.den)
          /\ (args.returns = VarExampleSeries /\ args.confidence = 90)
               => FEq(result.var_pct, Rat(255, 10000))

\* the ten-point example at confidence 0.9
C13_Witness ==
  /\ Called("calculate_var")
  /\ args.returns = VarExampleSeries /\ args.confidence = 90
  /\ FEq(result.var_pct, Rat(255, 10000))

\* the sign of a float: 2 for NaN, which has none
FSign(x) ==
  CASE x.k = "nan" -> 2
    [] x.k = "inf" -> x.s
    [] OTHER -> Sign(x.num) * Sign(x.den)

\* the annualised volatility of the series is a number other than zero
NonZeroVolatility(r) ==
  LET vol == scaled_std(r.values, TradingDays)
  IN ~IsNaN(vol) /\ ~IsZeroVol(vol)

UsableSeries ==
  LET keys == returns_dict(args.symbols, args.fetched)
  IN IF keys = {} \/ returns_df_rows(keys, args.fetched) = <<>> THEN {}
     ELSE keys

\* C15: calculate_correlation_matrix returns None whenever fewer than 2 of
\* the requested series yield usable overlapping data; it never returns a
\* matrix over fewer than 2 series.
C15_FewerThanTwoSeriesGivesNone ==
  Called("calculate_correlation_matrix")
    => /\ Cardinality(UsableSeries) < 2 => result = None
       /\ result # None => Cardinality(DOMAIN result.corr) >= 2

\* the entries of a returned matrix agree across the diagonal (NaN with NaN)
CorrelationSymmetric ==
  (Called("calculate_correlation_matrix") /\ result # None)
    => \A a \in DOMAIN result.corr : \A b \in DOMAIN result.corr :
         result.corr[a][b] = result.corr[b][a]

\* a correlation that is the number 1.0
IsOne(c) == c.k = "corr" /\ c.num > 0 /\ c.num * c.num = c.sq

\* C16: every returned correlation matrix is symmetric and every diagonal
\* entry equals 1.0 exactly.
C16_SymmetricWithUnitDiagonal ==
  (Called("calculate_correlation_matrix") /\ result # None)
    => \A a \in DOMAIN result.corr :
         /\ IsOne(result.corr[a][a])
         /\ \A b \in DOMAIN result.corr : result.corr[a][b] = result.corr[b][a]

\* the diagonal is 1.0 wherever the series varies over the common rows
UnitDiagonalWhereVarying ==
  (Called("calculate_correlation_matrix") /\ result # None)
    => \A a \in DOMAIN result.corr :
         ~IsNaN(result.corr[a][a]) => IsOne(result.corr[a][a])

\* caller t is inside assess_risk and its limit checks are still to run
BeforeChecks(t) == calls[t].pc \in {"Computing", "Checking"}

\* the outcomes of caller t's call when its alerts and status are evaluated
\* against the limits configured for that call
OwnLimitOutcomes(t) ==
  {o \in assess_computed("AAPL", calls[t].returns, calls[t].portfolio_value,
                         calls[t].limits, None) : ~IsRaise(o)}

\* C17: when two assess_risk calls on the agent overlap, each call's alerts
\* and status are evaluated against the limits configured for that call,
\* whatever limits the other call configures while the first is computing:
\* the limits its checks read are its own, and the call ends with alerts
\* and status that follow from them.
C17_LimitsArePerCall ==
  \A t \in Callers :
    (\E u \in Callers \ {t} : calls[u].pc # "Idle")
      => /\ BeforeChecks(t) => risk_limits = calls[t].limits
         /\ calls[t].pc \in {"Raised", "Assessed"}
              => calls[t].result \in OwnLimitOutcomes(t)

\* every assessment that completes has an empty alert list: the limits the
\* checks read have no visible effect as long as no metric is computed in a
\* completed call
CompletedCallsHaveNoAlerts ==
  \A t \in Callers :
    calls[t].pc = "Assessed"
      => calls[t].result.alerts = <<>> /\ len(calls[t].returns) = 0

\* an estimator result that is absent or a failure
AbsentOrFailure(r) == r = None \/ "error" \in DOMAIN r

\* the estimators of the returned assessment whose result is absent or a
\* failure
FailedEstimators ==
  {f \in MetricFields : AbsentOrFailure(result[f])}

\* C18: whenever an estimator invoked by assess_risk returns an absent or
\* failure result, the outcome is an assessment-level failure or a partial
\* assessment whose alert list has an explanatory alert for that estimator;
\* such a run never ends as status OK with an empty alert list.
C18_FailedEstimatorIsExplained ==
  (op = "assess_risk" /\ pc = "Assessed" /\ FailedEstimators # {})
    => /\ \A f \in FailedEstimators :
            \E i \in 1..Len(result.alerts) : result.alerts[i].metric = f
       /\ ~(result.risk_status = "OK" /\ result.alerts = <<>>)

\* C19: a call of calculate_var or calculate_cvar with a confidence outside
\* the open interval (0,1) or with a non-positive portfolio value stops with
\* a failure and never returns a VaR/CVaR result (stated for the calls that
\* are handed data; any exception counts as the failure).
C19_InvalidConfigurationFails ==
  (/\ pc = "Returned" /\ op \in {"calculate_var", "calculate_cvar"}
   /\ NonEmpty(args.returns) /\ ~ValidConfig)
    => result.tag = "raise"

\* a confidence outside [0,1] with a non-empty series does stop the call:
\* np.percentile rejects the percentile rank
OutOfRangeConfidenceRaises ==
  (/\ pc = "Returned" /\ op \in {"calculate_var", "calculate_cvar"}
   /\ NonEmpty(args.returns)
   /\ (args.confidence < 0 \/ args.confidence > 100))
    => result = Raise("ValueError")

\* the provider failed: no connection, a status other than 200, or a body
\* the operation of the current call cannot read its data from
ProviderFailed ==
  LET r == args.response
  IN \/ r.kind = "ConnectionError"
     \/ r.status_code # 200
     \/ ~r.body.json
     \/ r.body.shape = "scalar"
     \/ (op = "fetch_historical_returns"
           /\ ~(r.body.shape = "records" /\ r.body.has_close /\ r.body.numeric))
     \/ (op = "fetch_current_price"
           /\ ~(r.body.shape = "object" /\ r.body.has_price))

\* C20: every failure of the market-data provider reaches the caller of
\* fetch_historical_returns / fetch_current_price as None, and no exception
\* ever escapes those operations.
C20_ProviderFailureIsNone ==
  (pc = "Returned" /\ op \in {"fetch_historical_returns", "fetch_current_price"})
    => /\ result.tag # "raise"
       /\ ProviderFailed => result = None

\* a 200 response whose body is not JSON
C20_Witness ==
  /\ Called("fetch_historical_returns")
  /\ args.response = Response(200, NotJson)
  /\ result = None

\* C21: every call of assess_risk makes a single pass Idle -> Computing ->
\* {Assessed | Failed}: once it has left Computing it has ended as an
\* assessment or as a failure result, and in no other way (no exception
\* escapes the call).
C21_AssessEndsAssessedOrFailed ==
  (op = "assess_risk" /\ pc # "Computing") => pc \in {"Assessed", "Failed"}

\* the single pass itself holds: Computing is entered only from Idle, by the
\* one fetch of the call, and is never entered again
ComputingEnteredOnlyByFetch ==
  [][pc' = "Computing" => (pc = "Idle" /\ op' = "assess_risk")]_vars

(***************************************************************************)
(* Repeated estimator calls.  Each caller calls one estimator of the       *)
(* shared agent with arguments of its own.  `given` holds the arguments    *)
(* the caller passed; `fetched` holds what the estimator obtained by       *)
(* itself during the call: calculate_beta (line 336) and                   *)
(* calculate_correlation_matrix (line 463) call fetch_historical_returns,  *)
(* the other estimators obtain nothing.                                    *)
(***************************************************************************)
EstimatorCall(name, given, fetched, r) ==
  [pc |-> "Returned", op |-> name, given |-> given, fetched |-> fetched,
   result |-> r]

\* what the benchmark fetch of calculate_beta can give at different times
BenchmarkFetches == {None, LongSeries(1, MinOverlap, 1), LongSeries(1, MinOverlap, 2)}

\* the calls of the estimators that take the series only
SeriesEstimatorCalls ==
  UNION {{EstimatorCall("calculate_var",
                        [returns |-> r, confidence |-> 95, portfolio_value |-> 100000],
                        NoArgs, calculate_var(r, 95, 100000)),
          EstimatorCall("calculate_cvar",
                        [returns |-> r, confidence |-> 95, portfolio_value |-> 100000],
                        NoArgs, calculate_cvar(r, 95, 100000)),
          EstimatorCall("calculate_volatility", [returns |-> r], NoArgs,
                        calculate_volatility(r)),
          EstimatorCall("calculate_max_drawdown", [returns |-> r], NoArgs,
                        calculate_max_drawdown(r)),
          EstimatorCall("stress_test",
                        [returns |-> r, portfolio_value |-> 100000, scenarios |-> None],
                        NoArgs, stress_test(r, 100000, None))} : r \in RepeatSeries}

SharpeCalls ==
  UNION {{EstimatorCall("calculate_sharpe_ratio",
                        [returns |-> r, risk_free_rate |-> DefaultRiskFree],
                        NoArgs, res) :
            res \in calculate_sharpe_ratio(r, DefaultRiskFree)} : r \in RepeatSeries}

\* calculate_beta(asset_returns, market_symbol): the benchmark series is
\* fetched inside the call
BetaCalls ==
  {EstimatorCall("calculate_beta",
                 [asset_returns |-> LongSeries(1, MinOverlap, 1), market_symbol |-> "SPY"],
                 [market_returns |-> m],
                 calculate_beta(LongSeries(1, MinOverlap, 1), m)) :
     m \in BenchmarkFetches}

\* calculate_correlation_matrix(symbols): every series is fetched inside
CorrelationCalls ==
  {EstimatorCall("calculate_correlation_matrix", [symbols |-> <<"AAPL", "MSFT">>],
                 f, calculate_correlation_matrix(<<"AAPL", "MSFT">>, f)) :
     f \in [CorrSymbols -> {None, Series(<<1, 2>>, <<2, -1>>),
                            Series(<<1, 2>>, <<-1, 0>>)}]}

\* a caller calls an estimator that takes the series only
CallSeriesEstimator(t) ==
  /\ calls[t].pc = "Idle"
  /\ \E c \in SeriesEstimatorCalls \cup SharpeCalls :
       calls' = [calls EXCEPT ![t] = c]
  /\ UNCHANGED <<risk_limits, pc, op, args, result, db, th>>

\* a caller calls an estimator that fetches
CallFetchingEstimator(t) ==
  /\ calls[t].pc = "Idle"
  /\ \E c \in BetaCalls \cup CorrelationCalls :
       calls' = [calls EXCEPT ![t] = c]
  /\ UNCHANGED <<risk_limits, pc, op, args, result, db, th>>

\* the caller takes the result
TakeResult(t) ==
  /\ calls[t].pc = "Returned"
  /\ calls' = [calls EXCEPT ![t] = IdleCall]
  /\ UNCHANGED <<risk_limits, pc, op, args, result, db, th>>

NextRepeated ==
  \E t \in Callers :
    \/ CallSeriesEstimator(t)
    \/ CallFetchingEstimator(t)
    \/ TakeResult(t)

SpecRepeated == Init /\ [][NextRepeated]_vars

\* the part of a result that the model computes exactly: of a Sharpe result
\* everything but the magnitude of the ratio and the rating read from it
Determined(c) ==
  IF c.op = "calculate_sharpe_ratio" /\ c.result # None
  THEN [excess_sign |-> c.result.excess_sign,
        annualized_volatility |-> c.result.annualized_volatility,
        risk_free_rate |-> c.result.risk_free_rate]
  ELSE c.result

\* two returned calls of the same estimator with equal arguments
SameCall(s, t) ==
  /\ calls[s].pc = "Returned" /\ calls[t].pc = "Returned"
  /\ calls[s].op = calls[t].op
  /\ calls[s].given = calls[t].given

\* C22: every estimator is a pure function of its arguments: it leaves the
\* agent's risk_limits unchanged, obtains nothing from an external
\* collaborator, and two calls with equal arguments return equal results.
C22_EstimatorsArePure ==
  /\ risk_limits = DefaultLimits
  /\ \A t \in Callers :
       calls[t].pc = "Returned" => calls[t].fetched = NoArgs
  /\ \A s, t \in Callers :
       SameCall(s, t) => Determined(calls[s]) = Determined(calls[t])

\* the estimators that take the series only are pure, and the two fetching
\* estimators are functions of their arguments and of what they fetched
PureUpToFetch ==
  /\ risk_limits = DefaultLimits
  /\ \A t \in Callers :
       (calls[t].pc = "Returned"
          /\ calls[t].op \notin {"calculate_beta", "calculate_correlation_matrix"})
         => calls[t].fetched = NoArgs
  /\ \A s, t \in Callers :
       (SameCall(s, t) /\ calls[s].fetched = calls[t].fetched)
         => Determined(calls[s]) = Determined(calls[t])

\* equal arguments, different results: the benchmark fetch differed
RepeatedBetaDiffers ==
  /\ SameCall(1, 2) /\ calls[1].op = "calculate_beta"
  /\ calls[1].result # calls[2].result

\* the drawdown series of r, from the cumulative path and its running maximum
DrawdownOf(r) ==
  [i \in 1..len(r) |->
     Rat(cumprod(r.values)[i] - cummax(cumprod(r.values))[i],
         cummax(cumprod(r.values))[i])]

\* the position of the global minimum of the drawdown series (the first one
\* when the minimum is attained more than once)
TroughPos(r) ==
  Min({i \in 1..len(r) : \A j \in 1..len(r) : FLe(DrawdownOf(r)[i], DrawdownOf(r)[j])})

\* the positions at or before the trough where the cumulative path is at its
\* running maximum
HighsBeforeTrough(r) ==
  {i \in 1..TroughPos(r) : cumprod(r.values)[i] = cummax(cumprod(r.values))[i]}

\* C23: the trough is the index of the global minimum of the drawdown
\* series, the reported peak is the most recent index at or before the
\* trough at which the cumulative path attained its running maximum, and the
\* drawdown duration is trough - peak.
C23_PeakIsMostRecentHigh ==
  (Called("calculate_max_drawdown") /\ NonEmpty(args.returns))
    => /\ result.tag = "dict"
       /\ result.trough_date = Some(args.returns.index[TroughPos(args.returns)])
       /\ result.peak_date
            = Some(args.returns.index[Max(HighsBeforeTrough(args.returns))])
       /\ result.drawdown_days
            = Some(args.returns.index[TroughPos(args.returns)]
                   - args.returns.index[Max(HighsBeforeTrough(args.returns))])

\* what lines 214-232 compute before the result is built: the trough is the
\* global minimum, the peak is the all-time high before the trough where it
\* was attained first, and the duration is their difference
PeakLocalIsFirstHigh ==
  (Called("calculate_max_drawdown") /\ NonEmpty(args.returns))
    => LET l == drawdown_locals(args.returns)
           r == args.returns
           highs == {i \in HighsBeforeTrough(r) :
                       cumprod(r.values)[i] = cummax(cumprod(r.values))[TroughPos(r)]}
       IN /\ l.max_dd_date = r.index[TroughPos(r)]
          /\ l.peak_date = Some(r.index[Min(highs)])
          /\ l.drawdown_days = Some(r.index[TroughPos(r)] - r.index[Min(highs)])

\* a series whose all-time high before the trough was attained twice
HighAttainedTwice ==
  /\ Called("calculate_max_drawdown") /\ NonEmpty(args.returns)
  /\ drawdown_locals(args.returns).peak_date
       # Some(args.returns.index[Max(HighsBeforeTrough(args.returns))])

\* the positions after the trough whose drawdown is >= 0
RecoveredAfterTrough(r) ==
  {i \in (TroughPos(r) + 1)..len(r) : FGe(DrawdownOf(r)[i], Rat(0, 1))}

\* a drawdown result d reports the recovery of the series r as the claim has
\* it: no recovery index and no number of days when the path never recovers
\* after the trough, else the first index after the trough with drawdown >= 0
\* and the number recovery - trough
RecoveryAsClaimed(r, d) ==
  IF RecoveredAfterTrough(r) = {}
  THEN d.recovery_date = Text("Not yet recovered") /\ d.recovery_days.tag # "some"
  ELSE /\ d.recovery_date = Some(r.index[Min(RecoveredAfterTrough(r))])
       /\ d.recovery_days = Some(r.index[Min(RecoveredAfterTrough(r))]
                                 - r.index[TroughPos(r)])

\* C24: the recovery index is the first index after the trough whose
\* drawdown is >= 0; when there is none (also when the trough is the last
\* index) the result is marked not yet recovered with an undefined recovery
\* duration; otherwise the recovery duration is recovery - trough, reported
\* as a number.
C24_RecoveryIsFirstAfterTrough ==
  (Called("calculate_max_drawdown") /\ NonEmpty(args.returns))
    => result.tag = "dict" /\ RecoveryAsClaimed(args.returns, result)

\* the entries that lines 241-248 build follow the claim when the labels of
\* the series are integers
IntegerLabelsRecoverAsClaimed ==
  (/\ Called("calculate_max_drawdown") /\ NonEmpty(args.returns)
   /\ args.returns.ikind = "int")
    => RecoveryAsClaimed(args.returns,
                         drawdown_result(args.returns, drawdown_locals(args.returns)))

\* with date labels the slice drawdown[max_dd_date:] starts at the trough
\* itself: a path that never falls has the trough as its recovery date, zero
\* recovery days, and the zero is reported as 'Ongoing'
ZeroDayRecoveryIsOngoing ==
  /\ Called("calculate_max_drawdown") /\ NonEmpty(args.returns)
  /\ args.returns.ikind = "date"
  /\ drawdown_locals(args.returns).recovery_date
       = Some(drawdown_locals(args.returns).max_dd_date)
  /\ drawdown_result(args.returns, drawdown_locals(args.returns)).recovery_days
       = Text("Ongoing")

\* avg_daily_return of the series of the current call is total / (10 n), so
\* |shock| / avg_daily_return = QuotNum(shock) / QuotDen with shock in percent
QuotNum(shock) == Abs(shock) * 10 * len(args.returns)

QuotDen == 100 * SumSeq(args.returns.values)

\* C25 (as claimed): for every scenario the reported recovery days are
\* |shock| / avg_daily_return when the average daily return is > 0 and absent
\* when it is <= 0, and the reported recovery years are the reported days / 252.
C25_RecoveryDaysAndYearsExact ==
  (Called("stress_test") /\ NonEmpty(args.returns))
    => \A name \in DOMAIN ScenariosOf(args.scenarios) :
         IF QuotDen > 0
         THEN /\ result.results[name].days_to_recover.tag = "some"
              /\ result.results[name].days_to_recover.v * QuotDen
                   = QuotNum(ScenariosOf(args.scenarios)[name])
              /\ result.results[name].years_to_recover.tag = "some"
              /\ FEq(result.results[name].years_to_recover.v,
                     Rat(result.results[name].days_to_recover.v, TradingDays))
         ELSE /\ result.results[name].days_to_recover = None
              /\ result.results[name].years_to_recover = None

\* days d is the quotient q = num/den truncated to an integer
TruncatedTo(d, num, den) == d * den <= num /\ num < (d + 1) * den

\* tenths y is the quotient num/den rounded to one decimal (a tie goes to the
\* even tenth)
RoundedToTenths(y, num, den) ==
  /\ 2 * Abs(10 * num - y * den) <= den
  /\ 2 * Abs(10 * num - y * den) = den => y % 2 = 0

\* C25 (amended): when the average daily return is > 0 the reported days are
\* |shock| / avg_daily_return truncated to an integer and the reported years
\* are |shock| / avg_daily_return / 252 rounded to one decimal, computed from
\* the days before truncation; when it is <= 0 both are absent.
C25_RecoveryDaysTruncatedYearsRounded ==
  (Called("stress_test") /\ NonEmpty(args.returns))
    => \A name \in DOMAIN ScenariosOf(args.scenarios) :
         IF QuotDen > 0
         THEN /\ result.results[name].days_to_recover.tag = "some"
              /\ TruncatedTo(result.results[name].days_to_recover.v,
                             QuotNum(ScenariosOf(args.scenarios)[name]), QuotDen)
              /\ result.results[name].years_to_recover.tag = "some"
              /\ result.results[name].years_to_recover.v.den = 10
              /\ RoundedToTenths(result.results[name].years_to_recover.v.num,
                                 QuotNum(ScenariosOf(args.scenarios)[name]),
                                 QuotDen * TradingDays)
         ELSE /\ result.results[name].days_to_recover = None
              /\ result.results[name].years_to_recover = None

\* a 50% shock with an average daily return of 1/30: 15 days, 0.1 years
C25_Witness ==
  /\ Called("stress_test") /\ NonEmpty(args.returns) /\ args.scenarios = None
  /\ QuotDen > 0
  /\ result.results["2008 Crisis -50%"].days_to_recover = Some(15)
  /\ result.results["2008 Crisis -50%"].years_to_recover = Some(Rat(1, 10))
  /\ result.results["COVID Crash -35%"].days_to_recover = Some(10)
  /\ result.results["COVID Crash -35%"].years_to_recover = Some(Rat(0, 10))

\* the Sharpe ratio x lies in the bucket (lo, hi]
InBucket(x, lo, hi) == FGt(x, lo) /\ FLe(x, hi)

NaNRatedLosingMoney ==
  /\ Called("calculate_sharpe_ratio") /\ result # None
  /\ IsNaN(result.sharpe_ratio) /\ result.rating = "Losing Money"

\* C27: for every metric endpoint, when the historical returns of the symbol
\* cannot be fetched the response is HTTP 404 with detail 'Could not fetch
\* data'; status 500 is returned only for unexpected exceptions.
C27_UnfetchedIs404 ==
  Called("GET")
    => /\ args.returns = None
            => result = HTTPException(404, "Could not fetch data")
       /\ (result.tag = "raise" /\ result.status_code = 500)
            => args.returns # None

\* what the endpoints do: every exception of the try block, the 404 of the
\* endpoint included, leaves the endpoint as status 500
EveryFailureIs500 ==
  Called("GET")
    => /\ args.returns = None
            => result = HTTPException(500, StrOf(HTTPException(404, "Could not fetch data")))
       /\ result.tag = "raise" => result.status_code = 500

\* the drawdown result d has peak <= trough <= recovery (when a recovery is
\* reported), no negative duration, and a max_drawdown between 0 and 1
OrderedDrawdown(d) ==
  /\ d.peak_date.v <= d.trough_date.v
  /\ d.recovery_date.tag = "some" => d.trough_date.v <= d.recovery_date.v
  /\ d.drawdown_days.v >= 0
  /\ d.recovery_days.tag = "some" => d.recovery_days.v >= 0
  /\ FGe(d.max_drawdown, Rat(0, 1)) /\ FLe(d.max_drawdown, Rat(1, 1))

\* C28: the drawdown result of a series has the peak not later than the
\* trough and the recovery, when present, not earlier than the trough, so
\* neither duration is negative, and max_drawdown is a non-negative fraction.
C28_PeakTroughRecoveryOrdered ==
  (Called("calculate_max_drawdown") /\ NonEmpty(args.returns))
    => result.tag = "dict" /\ OrderedDrawdown(result)

\* the entries that lines 241-248 build are ordered as claimed, for integer
\* and for date labels
BuiltEntriesAreOrdered ==
  (Called("calculate_max_drawdown") /\ NonEmpty(args.returns))
    => OrderedDrawdown(drawdown_result(args.returns, drawdown_locals(args.returns)))

\* a recovered series with a drawdown: peak 1, trough 2, recovery 3
RecoveredDrawdown ==
  /\ Called("calculate_max_drawdown") /\ NonEmpty(args.returns)
  /\ drawdown_locals(args.returns).peak_date = Some(1)
  /\ drawdown_locals(args.returns).max_dd_date = 2
  /\ drawdown_locals(args.returns).recovery_date = Some(3)

\* the VaR loss fraction of the series of the current call at confidence c
VarPctAt(c) == calculate_var(args.returns, c, args.portfolio_value).var_pct

\* C29 (as claimed): for every non-empty series the VaR loss fraction does
\* not decrease when the confidence level increases: VaR(0.99) >= VaR(0.95).
C29_VarMonotoneInConfidence ==
  (Called("calculate_var") /\ ValidConfig /\ NonEmpty(args.returns))
    => \A c \in Confidences :
         c >= args.confidence => FGe(VarPctAt(c), result.var_pct)

\* the percentile return behind the VaR of the current call is a loss or zero
PercentileIsLoss ==
  InterpolatedPercentile(args.returns, 100 - args.confidence)[1] <= 0

\* C29 (amended): for every non-empty series whose percentile return at the
\* lower confidence is not positive, the VaR loss fraction does not decrease
\* when the confidence level increases.
C29_VarMonotoneForLosses ==
  (/\ Called("calculate_var") /\ ValidConfig /\ NonEmpty(args.returns)
   /\ PercentileIsLoss)
    => \A c \in Confidences :
         c >= args.confidence => FGe(VarPctAt(c), result.var_pct)

\* a series with a loss at the 5th percentile: the 99% VaR is larger
C29_Witness ==
  /\ Called("calculate_var") /\ ValidConfig /\ NonEmpty(args.returns)
  /\ args.confidence = 95 /\ PercentileIsLoss
  /\ FGt(VarPctAt(99), result.var_pct)

\* the percentile return itself never increases with the confidence
SignedPercentileMonotone ==
  (Called("calculate_var") /\ ValidConfig /\ NonEmpty(args.returns))
    => \A c \in Confidences :
         c >= args.confidence
           => InterpolatedPercentile(args.returns, 100 - c)[1]
                <= InterpolatedPercentile(args.returns, 100 - args.confidence)[1]

(***************************************************************************)
(* Calls of the storage by the threads of the market-data API.             *)
(***************************************************************************)
\* save_realtime_data, lines 71-85 and 88-90: the INSERT raises for this
\* point (nothing is inserted) and the handler rolls back
SaveRejected(t) ==
  /\ th[t].pc = "idle"
  /\ \E data \in {d \in DataPoints : InsertRaises(d)} :
       th' = [th EXCEPT ![t] = [IdleThread EXCEPT !.pc = "failed", !.data = data]]
  /\ UNCHANGED <<risk_limits, pc, op, args, result, calls, db>>

\* lines 71-85: the INSERT finds the write lock taken by another connection
\* until its busy timeout ends; the handler rolls back
SaveLockedOut(t) ==
  /\ th[t].pc = "idle"
  /\ db.lock \notin {0, t}
  /\ \E data \in {d \in DataPoints : ~InsertRaises(d)} :
       th' = [th EXCEPT ![t] = [IdleThread EXCEPT !.pc = "failed", !.data = data]]
  /\ UNCHANGED <<risk_limits, pc, op, args, result, calls, db>>

\* lines 71-85: the INSERT takes the write lock; the new row has the next id
SaveInsert(t) ==
  /\ th[t].pc = "idle"
  /\ db.lock = 0
  /\ Len(db.rows) < MaxRows
  /\ \E data \in {d \in DataPoints : ~InsertRaises(d)} :
       /\ db' = [db EXCEPT !.lock = t,
                           !.pending = [id |-> db.seq + 1, symbol |-> data.symbol,
                                        timestamp |-> data.timestamp,
                                        price |-> data.price]]
       /\ th' = [th EXCEPT ![t] = [IdleThread EXCEPT !.pc = "inserted",
                                                     !.data = data]]
  /\ UNCHANGED <<risk_limits, pc, op, args, result, calls>>

\* line 86: the commit makes the row visible and releases the lock
SaveCommit(t) ==
  /\ th[t].pc = "inserted"
  /\ db' = [rows |-> Append(db.rows, db.pending), seq |-> db.pending.id,
            lock |-> 0, pending |-> None]
  /\ th' = [th EXCEPT ![t].pc = "saved"]
  /\ UNCHANGED <<risk_limits, pc, op, args, result, calls>>

\* lines 86-90: the commit raises (the file cannot be written); the handler
\* rolls back, which drops the inserted row and releases the lock
SaveCommitFails(t) ==
  /\ th[t].pc = "inserted"
  /\ db' = [db EXCEPT !.lock = 0, !.pending = None]
  /\ th' = [th EXCEPT ![t].pc = "failed"]
  /\ UNCHANGED <<risk_limits, pc, op, args, result, calls>>

\* get_latest_prices, lines 119-140
GetLatest(t) ==
  /\ th[t].pc = "idle"
  /\ \E symbols \in SymbolQueries :
       th' = [th EXCEPT ![t] =
                [IdleThread EXCEPT !.pc = "queried", !.symbols = symbols,
                                   !.out = get_latest_prices(db.rows, symbols)]]
  /\ UNCHANGED <<risk_limits, pc, op, args, result, calls, db>>

\* the call returns
StorageReturn(t) ==
  /\ th[t].pc \in {"saved", "failed", "queried"}
  /\ th' = [th EXCEPT ![t] = IdleThread]
  /\ UNCHANGED <<risk_limits, pc, op, args, result, calls, db>>

NextStorage ==
  \E t \in StorageThreads :
    \/ SaveRejected(t)
    \/ SaveLockedOut(t)
    \/ SaveInsert(t)
    \/ SaveCommit(t)
    \/ SaveCommitFails(t)
    \/ GetLatest(t)
    \/ StorageReturn(t)

SpecStorage == Init /\ [][NextStorage]_vars

\* the symbols with a committed row
SavedSymbols == {db.rows[i].symbol : i \in 1..Len(db.rows)}

\* the committed row of a symbol that was saved last
LastSaved(sym) ==
  db.rows[Max({i \in 1..Len(db.rows) : db.rows[i].symbol = sym})]

\* one row per symbol of S: price and timestamp of the point saved last
LatestOf(S) ==
  {[symbol |-> sym, price |-> LastSaved(sym).price,
    timestamp |-> LastSaved(sym).timestamp] : sym \in S}

\* the symbols of a list
Listed(symbols) == {symbols.v[k] : k \in 1..Len(symbols.v)}

\* thread t returns from get_latest_prices in this step
Queries(t) == th[t].pc = "idle" /\ th'[t].pc = "queried"

\* a save of thread t fails in this step
SaveFails(t) == th[t].pc \in {"idle", "inserted"} /\ th'[t].pc = "failed"

\* C30 (as claimed): get_latest_prices returns exactly one row per saved
\* symbol, with the price and timestamp of the point saved last for it,
\* restricted to the requested symbols whenever a symbol list is given; a
\* save that fails leaves the stored rows unchanged.
C30_LatestRowPerSymbolOfGivenList ==
  [][\A t \in StorageThreads :
       /\ Queries(t)
            => th'[t].out =
                 LatestOf(IF th'[t].symbols = None THEN SavedSymbols
                          ELSE SavedSymbols \cap Listed(th'[t].symbols))
       /\ SaveFails(t) => db'.rows = db.rows]_vars

\* C30 (amended): the same, with the restriction applied when a non-empty
\* symbol list is given; an empty list, like no list, selects every saved
\* symbol.
C30_LatestRowPerSymbol ==
  [][\A t \in StorageThreads :
       /\ Queries(t)
            => th'[t].out =
                 LatestOf(IF th'[t].symbols = None \/ th'[t].symbols.v = <<>>
                          THEN SavedSymbols
                          ELSE SavedSymbols \cap Listed(th'[t].symbols))
       /\ SaveFails(t) => db'.rows = db.rows]_vars

\* two points of AAPL were saved, the later one with the earlier timestamp,
\* a save has failed, and a query for AAPL has returned the later point
C30_Witness ==
  /\ Len(db.rows) = 3
  /\ db.rows[1].symbol = "AAPL" /\ db.rows[1].timestamp = 2
  /\ db.rows[3].symbol = "AAPL" /\ db.rows[3].timestamp = 1
  /\ th[1].pc = "queried" /\ th[1].symbols = Some(<<"AAPL">>)
  /\ th[1].out = {[symbol |-> "AAPL", price |-> Some(11), timestamp |-> 1]}
  /\ th[2].pc = "failed"

=============================================================================
